---- MODULE Spec2Model ----
(***************************************************************************)
(* Sensor decoding core of the Egicon Raspberry Pi scripts: CRC-8, the     *)
(* SDP810 / SHT40 / BH1750 / BME688 register decoders and compensation,    *)
(* and the driver calls built on them.                                     *)
(*                                                                         *)
(* Numbers.  The Python code computes in IEEE doubles; TLC has integers    *)
(* only.  Every physical value is therefore kept as an exact integer in a  *)
(* named unit (sixtieths of a pascal, hundredths of %RH, tenths of a lux)  *)
(* chosen such that the comparisons the code makes are exact; the BME688   *)
(* polynomials are rendered in fixed point, with the error stated there.   *)
(*                                                                         *)
(* Specifications, all over the same variables:                            *)
(*   SpecWord         the routines that decode one 2-byte word             *)
(*   SpecSDP810       sdp810_sensor.py API calls, gui_sdp810_sensor.py     *)
(*   SpecSHT40        sht40.py API calls, gui_sht40.py monitor             *)
(*   SpecBME688       BME688Sensor connect / read_sensor_data / close      *)
(*   SpecBME688Field  BME688Sensor.read_field_data on register contents    *)
(*   SpecBME688Monitor  gui_bme688.py monitor and its threads              *)
(*   SpecBME688Gui    update_gui of gui_bme688.py on boundary samples      *)
(*   SpecBH1750       gui_bh1750.py monitor                                *)
(*   FairBH1750       SpecBH1750 with the sensor_loop thread scheduled     *)
(*   SpecRetry        the read_*_with_retry routines of the three drivers  *)
(*   SpecGasWait      heater-duration encoding of gui_bme688.py            *)
(*   SpecSHT40Terminal  main loops of sht40.py and sht40_sensor.py         *)
(*   SpecSPS30        data loop of gui_sps30.py                            *)
(*   SpecMux          SDP810Sensor behind a TCA9548A channel               *)
(*   SpecTca          tc9548a.py polling loop, SimpleTCA9548A              *)
(***************************************************************************)
EXTENDS Integers, Sequences, FiniteSets, TLC

VARIABLES
    word,           \* SpecWord: the 2-byte big-endian sensor word under decode
    res,            \* SpecWord: the result of the routine applied to word
    prog,           \* which script runs (each script is its own process)
    sensor,         \* the driver object: bus handle open, is_connected, mux_channel
    sensor_ready,   \* monitor: a sensor was found and test-read
    is_monitoring,  \* monitor: the cooperative run flag
    stop_pending,   \* monitor: root.after(0, self.stop_monitoring) callbacks queued
    workers,        \* monitor: the live background threads, each [pc, fail_count, ...]
    data_queue,     \* monitor: queue.Queue() from the workers to update_gui
    history,        \* monitor: the deque(s) (maxlen = max_points) of stored samples
    last            \* the last driver call or loop iteration: what it read and returned

wordVars == <<word, res>>
monVars == <<prog, sensor, sensor_ready, is_monitoring, stop_pending, workers,
             data_queue, history, last>>
vars == <<word, res, prog, sensor, sensor_ready, is_monitoring, stop_pending, workers,
          data_queue, history, last>>

\* Python's Optional: None is the empty tuple, a value v is <<v>>
None == <<>>
Some(v) == <<v>>
Val(x) == x[1]

\* What one bus transfer does: it raises (OSError), or it delivers bytes
IOError == [err |-> TRUE, data |-> <<>>]
Read(bytes) == [err |-> FALSE, data |-> bytes]

Byte == 0 .. 255

(***************************************************************************)
(* Python's integer operators on naturals.                                 *)
(***************************************************************************)
RECURSIVE BitXor(_, _)
BitXor(a, b) ==
    IF a = 0 THEN b
    ELSE IF b = 0 THEN a
    ELSE (((a % 2) + (b % 2)) % 2) + 2 * BitXor(a \div 2, b \div 2)

RECURSIVE BitAnd(_, _)
BitAnd(a, b) ==
    IF a = 0 \/ b = 0 THEN 0
    ELSE ((a % 2) * (b % 2)) + 2 * BitAnd(a \div 2, b \div 2)

RECURSIVE BitOr(_, _)
BitOr(a, b) ==
    IF a = 0 THEN b
    ELSE IF b = 0 THEN a
    ELSE (IF a % 2 = 1 \/ b % 2 = 1 THEN 1 ELSE 0) + 2 * BitOr(a \div 2, b \div 2)

RECURSIVE Pow2(_)
Pow2(n) == IF n = 0 THEN 1 ELSE 2 * Pow2(n - 1)

Shl(a, n) == a * Pow2(n)
Shr(a, n) == a \div Pow2(n)

Max(a, b) == IF a >= b THEN a ELSE b
Min(a, b) == IF a <= b THEN a ELSE b

\* round(n/d) for d > 0 to the nearest integer, a tie going up (the callers'
\* quotients never fall on a tie, see each use); \div is floor division
RoundDiv(n, d) == (n + (d \div 2)) \div d

(***************************************************************************)
(* CRC-8, form A: sdp810_sensor.py SDP810Sensor._calculate_crc8 (the same  *)
(* text in gui_sdp810_sensor.py, simpleEddy.py, sht40_sensor.py            *)
(* SDP810_I2C_Test): shift and XOR on the unmasked value, "crc &= 0xFF"    *)
(* as a separate statement closing every bit iteration.                    *)
(***************************************************************************)
\* mutant: the polynomial lacks its x^0 term (0x30)
crc8_bit_poly30(crc) ==
    IF BitAnd(crc, 128) # 0
    THEN BitAnd(BitXor(Shl(crc, 1), 48), 255)
    ELSE BitAnd(Shl(crc, 1), 255)

crc8_bit_masklast(crc) ==
    LET shifted == IF BitAnd(crc, 128) # 0
                   THEN BitXor(Shl(crc, 1), 49)
                   ELSE Shl(crc, 1)
    IN  BitAnd(shifted, 255)

RECURSIVE crc8_bits_masklast(_, _)
crc8_bits_masklast(crc, n) ==
    IF n = 0 THEN crc ELSE crc8_bits_masklast(crc8_bit_masklast(crc), n - 1)

\* the 8 bit iterations as a function of the register after "crc ^= byte"
\* (a constant, evaluated once)
crc8_byte_masklast == [c \in Byte |-> crc8_bits_masklast(c, 8)]

RECURSIVE crc8_bytes_masklast(_, _)
crc8_bytes_masklast(crc, data) ==
    IF data = <<>> THEN crc
    ELSE crc8_bytes_masklast(crc8_byte_masklast[BitXor(crc, Head(data))], Tail(data))

calculate_crc8(data) == crc8_bytes_masklast(255, data)

(***************************************************************************)
(* CRC-8, form B: gui_sht40.py SimpleSHT40.calculate_crc (the same text in *)
(* sht40.py, sht40_sensor.py, gui_sps30.py): the mask is applied inside    *)
(* each branch.                                                            *)
(***************************************************************************)
crc_bit_maskinline(CRC) ==
    IF BitAnd(CRC, 128) # 0
    THEN BitAnd(BitXor(Shl(CRC, 1), 49), 255)
    ELSE BitAnd(Shl(CRC, 1), 255)

RECURSIVE crc_bits_maskinline(_, _)
crc_bits_maskinline(CRC, n) ==
    IF n = 0 THEN CRC ELSE crc_bits_maskinline(crc_bit_maskinline(CRC), n - 1)

crc_byte_maskinline == [c \in Byte |-> crc_bits_maskinline(c, 8)]

RECURSIVE crc_bytes_maskinline(_, _)
crc_bytes_maskinline(CRC, data) ==
    IF data = <<>> THEN CRC
    ELSE crc_bytes_maskinline(crc_byte_maskinline[BitXor(CRC, Head(data))], Tail(data))

calculate_crc(data) == crc_bytes_maskinline(255, data)

verify_crc(data, crc) == calculate_crc(data) = crc

(***************************************************************************)
(* struct.unpack('>h', bytes([msb, lsb]))[0]: big-endian signed 16 bit.    *)
(***************************************************************************)
unpack_h(msb, lsb) ==
    LET u == BitOr(Shl(msb, 8), lsb)
    IN  IF BitAnd(u, 32768) # 0 THEN u - 65536 ELSE u

(***************************************************************************)
(* SDP810.  A pressure is an integer count of 1/PaUnit pascal, so that     *)
(* raw_pressure / 60.0 and the comparisons with the clamp limits are exact.*)
(***************************************************************************)
PaUnit == 60

\* mutant: the lower clamp limit is missing
SimpleSDP810_read_pressure_data_nofloor(io) ==
    IF io.err \/ Len(io.data) # 3 THEN <<None, FALSE, "error">>
    ELSE <<Some(Min(500 * PaUnit, (unpack_h(io.data[1], io.data[2]) * PaUnit) \div 60)),
           calculate_crc8(<<io.data[1], io.data[2]>>) = io.data[3], "OK">>

\* gui_sdp810_sensor.py SimpleSDP810._read_pressure_data -> (pressure, crc_ok, message)
SimpleSDP810_read_pressure_data(io) ==
    IF io.err THEN <<None, FALSE, "read error">>
    ELSE IF Len(io.data) # 3 THEN <<None, FALSE, "length error">>
    ELSE LET raw_data == io.data
             pressure_msb == raw_data[1]
             pressure_lsb == raw_data[2]
             received_crc == raw_data[3]
             calculated_crc == calculate_crc8(<<pressure_msb, pressure_lsb>>)
             crc_ok == calculated_crc = received_crc
             raw_pressure == unpack_h(pressure_msb, pressure_lsb)
             pressure_pa == (raw_pressure * PaUnit) \div 60
         IN  <<Some(Max(-500 * PaUnit, Min(500 * PaUnit, pressure_pa))), crc_ok, "OK">>

\* sdp810_sensor.py SDP810Sensor._read_pressure_data -> (pressure, crc_ok, message)
\* sensor_info["scaling_factor"] is 60.0
SDP810Sensor_read_pressure_data(io) ==
    IF io.err THEN <<None, FALSE, "read error">>
    ELSE IF Len(io.data) # 3 THEN <<None, FALSE, "length error">>
    ELSE LET raw_data == io.data
             pressure_msb == raw_data[1]
             pressure_lsb == raw_data[2]
             received_crc == raw_data[3]
             calculated_crc == calculate_crc8(<<pressure_msb, pressure_lsb>>)
             crc_ok == calculated_crc = received_crc
             raw_pressure == unpack_h(pressure_msb, pressure_lsb)
             pressure_pa == (raw_pressure * PaUnit) \div 60
         IN  <<Some(Max(-1000 * PaUnit, Min(1000 * PaUnit, pressure_pa))), crc_ok, "OK">>

(***************************************************************************)
(* SHT40 conversion (gui_sht40.py, sht40.py read_temperature_humidity).    *)
(* -45 + 175*t_raw/65535 and -6 + 125*rh_raw/65535 are kept as numerators  *)
(* over 65535; round(x, 2) gives hundredths.  200*numerator is even and    *)
(* every odd multiple of 65535 is odd, so no quotient lies on a tie.       *)
(* TEMPERATURE_OFFSET and HUMIDITY_OFFSET of sht40.py are 0.0.             *)
(***************************************************************************)
SHT40_temperature(t_raw) ==
    LET temperature == 175 * t_raw - 45 * 65535
    IN  RoundDiv(temperature * 100, 65535)

\* mutant: the upper clamp limit is missing
SHT40_humidity_clamped_noceil(rh_raw) == Max(0, 125 * rh_raw - 6 * 65535)

\* the clamped humidity before rounding, as a numerator over 65535
SHT40_humidity_clamped(rh_raw) ==
    LET humidity == 125 * rh_raw - 6 * 65535
    IN  Max(0, Min(100 * 65535, humidity))

SHT40_humidity(rh_raw) == RoundDiv(SHT40_humidity_clamped(rh_raw) * 100, 65535)

(***************************************************************************)
(* BH1750 (gui_bh1750.py SimpleBH1750.read_light_safe, simplebh1750.py     *)
(* read_light).  raw/1.2 = 5*raw/6 is kept in sixths of a lux; round(x, 1) *)
(* gives tenths.  10*5*raw/6 has fractional part 0, 1/3 or 2/3: no tie.    *)
(***************************************************************************)
BH1750_methods == <<32, 33, 35, 16>>

\* mutant: the low-resolution branch scales by 1/0.6
BH1750_lux_lowres(command, raw_value) ==
    IF command \in {32, 33} THEN 5 * raw_value ELSE 10 * raw_value

\* lux of one measurement command, in sixths of a lux
BH1750_lux(command, raw_value) ==
    IF command \in {32, 33} THEN 5 * raw_value ELSE 5 * raw_value

\* read_light_safe from method i on.  io[i] is what the bus does for method i:
\* IOError (the write or both read paths raised) or the 2 data bytes.
\* -> [ret, command, rejected]: ret is the lux returned, in tenths, or None when
\* every method failed (the call raises); command is the method that answered;
\* rejected records that the 0..65535 range check refused a value.
RECURSIVE read_light_from(_, _)
read_light_from(i, io) ==
    IF i > Len(BH1750_methods)
    THEN [ret |-> None, command |-> None, rejected |-> FALSE]
    ELSE IF io[i].err THEN read_light_from(i + 1, io)
    ELSE LET command == BH1750_methods[i]
             data == io[i].data
             raw_value == BitOr(Shl(data[1], 8), data[2])
             lux == BH1750_lux(command, raw_value)
         IN  IF 0 <= lux /\ lux <= 65535 * 6
             THEN [ret |-> Some(RoundDiv(lux * 10, 6)), command |-> Some(command),
                   rejected |-> FALSE]
             ELSE [read_light_from(i + 1, io) EXCEPT !.rejected = TRUE]

read_light_safe(io) == read_light_from(1, io)

\* simplebh1750.py SimpleBH1750.read_light, in tenths of a lux
simplebh1750_read_light(data) ==
    LET lux == 5 * (Shl(data[1], 8) + data[2])
    IN  RoundDiv(lux * 10, 6)

(***************************************************************************)
(* BME688 humidity compensation (BME688/gui_bme688.py compensate_humidity).*)
(* Fixed-point rendering of the double arithmetic: the result is in 1/1024 *)
(* %RH (HumUnit), intermediate terms carry the binary scale named in their *)
(* suffix (Q20: units of 2^-20).  The scales keep every product inside     *)
(* TLC's 32-bit integers for the calibration fixtures below; against the   *)
(* double formula the result differs by less than 0.5 %RH.                 *)
(***************************************************************************)
HumUnit == Pow2(10)

compensate_humidity_poly(cal, t_fine, hum_adc) ==
    LET ts16      == t_fine \div 320                     \* temp_scaled = t_fine/5120, Q4
        var1Q5    == 32 * hum_adc - (512 * cal.par_h1 + cal.par_h3 * ts16)
        brQ20     == 1048576 + 4 * cal.par_h4 * ts16 + (cal.par_h5 * ts16 * ts16) \div 256
        facQ24    == (cal.par_h2 * (brQ20 \div 16)) \div 1024
        var2      == ((var1Q5 \div 8) * (facQ24 \div 16)) \div 4096
        coefQ18   == (128 * cal.par_h6 + (cal.par_h7 * ts16) \div 16) \div 8
        var2sqQ2  == ((var2 \div 16) * (var2 \div 16)) \div 1024
    IN  var2 + (coefQ18 * var2sqQ2) \div 1024

compensate_humidity(cal, t_fine, hum_adc) ==
    Max(0, Min(100 * HumUnit, compensate_humidity_poly(cal, t_fine, hum_adc)))

\* constants.CalibrationData: the coefficients read from the chip (two factory
\* sets) and t_fine, 0 until a temperature compensation has run
CalSamples ==
    { [par_t1 |-> 26041, par_t2 |-> 26469, par_t3 |-> 3,
       par_p1 |-> 36673, par_p2 |-> -10515, par_p3 |-> 88, par_p4 |-> 7310,
       par_p5 |-> -129, par_p6 |-> 30, par_p7 |-> 46, par_p8 |-> -3177,
       par_p9 |-> -2379, par_p10 |-> 30,
       par_h1 |-> 794, par_h2 |-> 1011, par_h3 |-> 0, par_h4 |-> 45,
       par_h5 |-> 20, par_h6 |-> 120, par_h7 |-> -100,
       res_heat_range |-> 1, t_fine |-> 0],
      [par_t1 |-> 25918, par_t2 |-> 26390, par_t3 |-> 3,
       par_p1 |-> 35898, par_p2 |-> -10400, par_p3 |-> 88, par_p4 |-> 6891,
       par_p5 |-> -101, par_p6 |-> 30, par_p7 |-> 33, par_p8 |-> -40,
       par_p9 |-> -3096, par_p10 |-> 30,
       par_h1 |-> 636, par_h2 |-> 1027, par_h3 |-> 3, par_h4 |-> 45,
       par_h5 |-> 20, par_h6 |-> 120, par_h7 |-> -100,
       res_heat_range |-> 3, t_fine |-> 0] }

\* t_fine left by the last temperature compensation: 0 (never run), 25 C, 85 C
TFineSamples == {0, 128000, 435200}

(***************************************************************************)
(* SpecWord: every routine that decodes one 2-byte big-endian word,        *)
(* applied to every word.                                                  *)
(***************************************************************************)
\* The words decoded: every high byte, with the low bytes of a stride and those
\* of the words at which a decoder changes behaviour: 0x7530 / 0x7531 and
\* 0x8AD0 / 0x8ACF (+-30000, the SDP810 clamp), 0x0C49 / 0x0C4A and
\* 0xD915 / 0xD916 (the SHT40 humidity clamp), 0x0190 and 0xBEEF (the published
\* examples), 0xFF.
LsbStride == 64

LowBytes ==
    {b \in Byte : b % LsbStride = 0} \cup {48, 49, 207, 208, 73, 74, 21, 22, 144, 239, 255}

Words == Byte \X LowBytes

Idle == [op |-> "none"]

\* last: op names the call, frame is the last bus read it made, nreads how many
\* frame reads it made, ret what it returned, raised whether it left by an
\* exception, enq whether the loop iteration put a sample on data_queue
Call(op, rd, raised, enq) ==
    [op |-> op, frame |-> rd.frame, nreads |-> rd.nreads, ret |-> rd.ret,
     raised |-> raised, enq |-> enq]

NoRead == [ret |-> None, nreads |-> 0, frame |-> IOError]
NoCall == Call("none", NoRead, FALSE, FALSE)

\* last after a pass of a sensor_loop that keeps a failure count: failed is
\* the count after the read, reset whether the reset branch ran, reset_raised
\* whether its reconnect raised, fail_count the count at the end of the pass
LoopCall(rd, enq, failed, reset, reset_raised, fail_count) ==
    [op |-> "sensor_loop", frame |-> rd.frame, nreads |-> rd.nreads, ret |-> rd.ret,
     raised |-> FALSE, enq |-> enq, failed |-> failed, reset |-> reset,
     reset_raised |-> reset_raised, fail_count |-> fail_count]

\* the monitor variables of a run in which no monitor script takes part
NoMonitor ==
    /\ prog = "decode"
    /\ sensor = [bus |-> FALSE, is_connected |-> FALSE, mux_channel |-> None]
    /\ sensor_ready = FALSE
    /\ is_monitoring = FALSE
    /\ stop_pending = 0
    /\ workers = <<>>
    /\ data_queue = <<>>
    /\ history = <<>>
    /\ last = NoCall

WordInit ==
    /\ word \in Words
    /\ res = Idle
    /\ NoMonitor

\* the CRC byte a frame carries: the right one, or a corrupted one
CrcBytes(w) == LET c == calculate_crc8(w) IN {c, 255 - c}

ApplyCrc ==
    /\ res = Idle
    /\ res' = [op |-> "crc", crc8 |-> calculate_crc8(word), crc |-> calculate_crc(word)]
    /\ UNCHANGED <<word, monVars>>

DecodeSimpleSDP810 ==
    /\ res = Idle
    /\ \E c \in CrcBytes(word) :
         LET r == SimpleSDP810_read_pressure_data(Read(<<word[1], word[2], c>>))
         IN  res' = [op |-> "SimpleSDP810", pressure |-> r[1], crc_ok |-> r[2]]
    /\ UNCHANGED <<word, monVars>>

DecodeSDP810Sensor ==
    /\ res = Idle
    /\ \E c \in CrcBytes(word) :
         LET r == SDP810Sensor_read_pressure_data(Read(<<word[1], word[2], c>>))
         IN  res' = [op |-> "SDP810Sensor", pressure |-> r[1], crc_ok |-> r[2]]
    /\ UNCHANGED <<word, monVars>>

DecodeSHT40 ==
    /\ res = Idle
    /\ LET raw == BitOr(Shl(word[1], 8), word[2])
       IN  res' = [op |-> "SHT40", temperature |-> SHT40_temperature(raw),
                   humidity |-> SHT40_humidity(raw)]
    /\ UNCHANGED <<word, monVars>>

\* the first nfail measurement methods fail on the bus, the others deliver word
LightIO(nfail) == [i \in 1 .. Len(BH1750_methods) |-> IF i <= nfail THEN IOError ELSE Read(word)]

DecodeBH1750 ==
    /\ res = Idle
    /\ \E nfail \in 0 .. Len(BH1750_methods) :
         res' = [op |-> "BH1750", r |-> read_light_safe(LightIO(nfail)),
                 simple |-> simplebh1750_read_light(word)]
    /\ UNCHANGED <<word, monVars>>

CompensateHumidity ==
    /\ res = Idle
    /\ \E cal \in CalSamples, t_fine \in TFineSamples :
         LET hum_adc == BitOr(Shl(word[1], 8), word[2])
         IN  res' = [op |-> "BME688", cal |-> cal, t_fine |-> t_fine,
                     humidity |-> compensate_humidity(cal, t_fine, hum_adc)]
    /\ UNCHANGED <<word, monVars>>

WordNext ==
    \/ ApplyCrc
    \/ DecodeSimpleSDP810
    \/ DecodeSDP810Sensor
    \/ DecodeSHT40
    \/ DecodeBH1750
    \/ CompensateHumidity

SpecWord == WordInit /\ [][WordNext]_vars

(***************************************************************************)
(* Claims checked under SpecWord.                                          *)
(***************************************************************************)
\* CRC-8 of a 2-byte word as polynomial division, independent of the register
\* loop: the word with 0xFF XORed into its first byte, times x^8, reduced
\* modulo x^8 + x^5 + x^4 + 1 (0x131) from the top bit down.
RECURSIVE PolyReduce(_, _)
PolyReduce(v, i) ==
    IF i < 8 THEN v
    ELSE PolyReduce(IF BitAnd(v, Pow2(i)) # 0 THEN BitXor(v, Shl(305, i - 8)) ELSE v, i - 1)

Crc8Reference(w) == PolyReduce(Shl(BitXor(w[1], 255), 16) + Shl(w[2], 8), 23)

\* C1: for every 2-byte word both CRC-8 routines (the SDP810 form and the SHT40
\* form) return the same value, that value is the CRC-8 with polynomial 0x31 and
\* initial register 0xFF, it lies in 0..255, and crc8([0xBE, 0xEF]) = 0x92.
CrcRoutinesAgree ==
    res.op = "crc" =>
        /\ res.crc8 = res.crc
        /\ res.crc8 \in Byte
        /\ res.crc8 = Crc8Reference(word)
        /\ (word = <<190, 239>> => res.crc8 = 146)

CrcVendorExample == res.op = "crc" /\ word = <<190, 239>> /\ res.crc = 146

\* the signed big-endian value V of the word
SignedWord(w) == 256 * w[1] + w[2] - (IF w[1] >= 128 THEN 65536 ELSE 0)
Abs(x) == IF x < 0 THEN -x ELSE x
Clamp(x, lo, hi) == IF x < lo THEN lo ELSE IF x > hi THEN hi ELSE x

\* C4: SimpleSDP810._read_pressure_data returns max(-500, min(500, V/60)) for
\* the signed big-endian V of (msb, lsb); the result lies in [-500, 500] Pa and
\* differs from V/60 exactly when |V| > 30000.  (A pressure p sixtieths of a
\* pascal is V/60 Pa exactly when p = V.)
GuiPressureClamped ==
    res.op = "SimpleSDP810" =>
        LET V == SignedWord(word)
            p == Val(res.pressure)
        IN  /\ res.pressure # None
            /\ p * 60 = Clamp(V, -30000, 30000) * PaUnit
            /\ -500 * PaUnit <= p /\ p <= 500 * PaUnit
            /\ (p * 60 # V * PaUnit <=> Abs(V) > 30000)

GuiPressureSaturates ==
    /\ res.op = "SimpleSDP810"
    /\ word = <<138, 207>>
    /\ res.pressure = Some(-500 * PaUnit)

\* C5: the pressure SDP810Sensor._read_pressure_data returns lies within the
\* documented +-500 Pa for every frame.
StandalonePressureInRange ==
    res.op = "SDP810Sensor" =>
        /\ -500 * PaUnit <= Val(res.pressure)
        /\ Val(res.pressure) <= 500 * PaUnit

\* the SHT40 humidity formula clamp(-6 + 125*rh_raw/65535, 0, 100) as a
\* numerator over 65535
HumidityFormula(w) == Clamp(125 * (256 * w[1] + w[2]) - 6 * 65535, 0, 100 * 65535)

\* C9 as stated: the BME688 humidity is the polynomial value clamped to
\* [0, 100], and the SHT40 drivers return exactly
\* clamp(-6 + 125*rh_raw/65535, 0, 100) (res.humidity is in hundredths).
HumidityIsClampExactly ==
    /\ res.op = "BME688" =>
          LET hum_adc == 256 * word[1] + word[2]
          IN  res.humidity =
                Clamp(compensate_humidity_poly(res.cal, res.t_fine, hum_adc), 0, 100 * HumUnit)
    /\ res.op = "SHT40" => res.humidity * 65535 = HumidityFormula(word) * 100

\* C9 amended: the humidity of every sample lies in [0, 100]; the BME688 value
\* is the polynomial value clamped; the SHT40 value is the clamped formula
\* rounded to two decimals (the nearest hundredth), 0 for rh_raw <= 3145 and
\* 100 for rh_raw >= 55574.
HumidityClampedAndRounded ==
    /\ res.op = "BME688" =>
          LET hum_adc == 256 * word[1] + word[2]
          IN  /\ res.humidity =
                   Clamp(compensate_humidity_poly(res.cal, res.t_fine, hum_adc), 0, 100 * HumUnit)
              /\ 0 <= res.humidity /\ res.humidity <= 100 * HumUnit
    /\ res.op = "SHT40" =>
          LET rh_raw == 256 * word[1] + word[2]
          IN  /\ 0 <= res.humidity /\ res.humidity <= 100 * 100
              /\ 2 * Abs(res.humidity * 65535 - HumidityFormula(word) * 100) <= 65535
              /\ (rh_raw <= 3145 => res.humidity = 0)
              /\ (rh_raw >= 55574 => res.humidity = 100 * 100)

\* the two-decimal rounding shows: rh_raw = 3146 (0.0006 %RH) is returned as 0.0
HumidityRounded ==
    /\ res.op = "SHT40"
    /\ word = <<12, 74>>
    /\ res.humidity = 0

\* C10: for all bytes b0, b1 and every measurement command the BH1750 drivers
\* return (256*b0 + b1)/1.2 rounded to one decimal, [0x01, 0x90] gives 333.3,
\* the value lies in [0, 54612.5], and the range check of read_light_safe
\* rejects nothing.  (res.r.ret is in tenths: the nearest integer to 50*raw/6.)
LuxFormula ==
    res.op = "BH1750" =>
        LET raw == 256 * word[1] + word[2]
        IN  /\ ~ res.r.rejected
            /\ (res.r.ret = None <=> res.r.command = None)
            /\ res.r.ret # None =>
                 /\ 2 * Abs(6 * Val(res.r.ret) - 50 * raw) <= 6
                 /\ 0 <= Val(res.r.ret) /\ Val(res.r.ret) <= 546125
                 /\ Val(res.r.ret) = res.simple
            /\ (word = <<1, 144>> => res.simple = 3333)

\* the low-resolution command 0x23 answering with the largest word
LuxLowResolutionMax ==
    /\ res.op = "BH1750"
    /\ res.r.command = Some(35)
    /\ word = <<255, 255>>
    /\ res.r.ret = Some(546125)

(***************************************************************************)
(* SDP810 drivers: gui_sdp810_sensor.py SimpleSDP810 and sdp810_sensor.py  *)
(* SDP810Sensor.  A driver object is [bus, is_connected, mux_channel]:     *)
(* bus is TRUE while self.bus holds an open SMBus; SimpleSDP810 has no     *)
(* multiplexer, its mux_channel stays None.                                *)
(***************************************************************************)
NewSensor(mux_channel) ==
    [bus |-> FALSE, is_connected |-> FALSE, mux_channel |-> mux_channel]

\* a transfer on a handle that is None raises AttributeError inside the try
OnBus(s, io) == IF s.bus THEN io ELSE IOError

\* what connect() meets: SMBus() opens or raises, read_byte(addr) answers or
\* raises, then the test frame
ConnectIO(frames) ==
    {[open |-> FALSE, probe |-> FALSE, frame |-> IOError],
     [open |-> TRUE, probe |-> FALSE, frame |-> IOError]}
    \cup {[open |-> TRUE, probe |-> TRUE, frame |-> f] : f \in frames}

\* SimpleSDP810.connect -> [sensor, ret]
SimpleSDP810_connect(s, cio) ==
    IF ~ cio.open THEN [sensor |-> s, ret |-> FALSE]
    ELSE IF ~ cio.probe THEN [sensor |-> [s EXCEPT !.bus = TRUE], ret |-> FALSE]
    ELSE LET r == SimpleSDP810_read_pressure_data(cio.frame)
         IN  IF r[1] # None
             THEN [sensor |-> [s EXCEPT !.bus = TRUE, !.is_connected = TRUE], ret |-> TRUE]
             ELSE [sensor |-> [s EXCEPT !.bus = TRUE], ret |-> FALSE]

\* SimpleSDP810.close / SDP810Sensor.close
SDP810_close(s) ==
    IF s.bus THEN [s EXCEPT !.bus = FALSE, !.is_connected = FALSE] ELSE s

\* the for-loop of read_pressure_with_retry from attempt on (attempt counts
\* from 0); ios[k] is what the k-th frame read meets
\* -> [ret, nreads, frame]: frame is the last transfer made
\* mutant: the attempt's value is returned whatever its crc_ok
RECURSIVE SimpleSDP810_retry_from_nocrc(_, _, _, _)
SimpleSDP810_retry_from_nocrc(s, ios, attempt, max_retries) ==
    IF attempt >= max_retries
    THEN [ret |-> None, nreads |-> attempt,
          frame |-> IF attempt = 0 THEN IOError ELSE OnBus(s, ios[attempt])]
    ELSE LET r == SimpleSDP810_read_pressure_data(OnBus(s, ios[attempt + 1]))
         IN  IF r[1] # None
             THEN [ret |-> r[1], nreads |-> attempt + 1, frame |-> OnBus(s, ios[attempt + 1])]
             ELSE SimpleSDP810_retry_from_nocrc(s, ios, attempt + 1, max_retries)

RECURSIVE SimpleSDP810_retry_from(_, _, _, _)
SimpleSDP810_retry_from(s, ios, attempt, max_retries) ==
    IF attempt >= max_retries
    THEN [ret |-> None, nreads |-> attempt,
          frame |-> IF attempt = 0 THEN IOError ELSE OnBus(s, ios[attempt])]
    ELSE LET r == SimpleSDP810_read_pressure_data(OnBus(s, ios[attempt + 1]))
         IN  IF r[1] # None /\ r[2]
             THEN [ret |-> r[1], nreads |-> attempt + 1, frame |-> OnBus(s, ios[attempt + 1])]
             ELSE SimpleSDP810_retry_from(s, ios, attempt + 1, max_retries)

\* SimpleSDP810.read_pressure_with_retry
SimpleSDP810_read_pressure_with_retry(s, ios, max_retries) ==
    IF ~ s.is_connected
    THEN [ret |-> None, nreads |-> 0, frame |-> IOError]
    ELSE SimpleSDP810_retry_from(s, ios, 0, max_retries)

\* what _select_mux_channel meets: one of its three transfers (at) raises,
\* or the control register reads back as readback: no channel, the requested
\* one, another one
MuxIO(channel) ==
    {[err |-> TRUE, at |-> k, readback |-> 0] : k \in 1 .. 3}
    \cup {[err |-> FALSE, at |-> 0, readback |-> r] :
            r \in {0, Shl(1, channel), Shl(1, (channel + 1) % 8)}}

\* no channel selection
NoMux == [err |-> FALSE, at |-> 0, readback |-> 0]

\* the transfers _select_mux_channel makes on the multiplexer address, in
\* program order, up to the one that raises: write_byte(0),
\* write_byte(channel_mask), read_byte()
select_mux_channel_transfers(s, mio) ==
    LET channel_mask == Shl(1, Val(s.mux_channel))
        all == <<[kind |-> "mux_write", value |-> 0, ok |-> ~ (mio.err /\ mio.at = 1)],
                 [kind |-> "mux_write", value |-> channel_mask,
                  ok |-> ~ (mio.err /\ mio.at = 2)],
                 [kind |-> "mux_read", value |-> mio.readback,
                  ok |-> ~ (mio.err /\ mio.at = 3)]>>
    IN  IF ~ s.bus THEN <<>>
        ELSE IF mio.err THEN SubSeq(all, 1, mio.at)
        ELSE all

\* mutant: the register is not compared with the mask
select_mux_channel_unverified(s, mio) == s.bus /\ ~ mio.err

\* SDP810Sensor._select_mux_channel
select_mux_channel(s, mio) ==
    IF ~ s.bus \/ mio.err THEN FALSE
    ELSE LET channel_mask == Shl(1, Val(s.mux_channel))
         IN  mio.readback = channel_mask

\* the multiplexer transfers of a driver call that reached its channel
\* selection: none without a configured channel
mux_transfers(s, mio) ==
    IF s.mux_channel # None THEN select_mux_channel_transfers(s, mio) ELSE <<>>

\* SDP810Sensor.connect -> [sensor, ret, mux, nreads]: mux is the transfers
\* of the channel selection, nreads the number of test frames read
SDP810Sensor_connect(s, cio, mio) ==
    IF ~ cio.open THEN [sensor |-> s, ret |-> FALSE, mux |-> <<>>, nreads |-> 0]
    ELSE LET s1 == [s EXCEPT !.bus = TRUE]
             mux == mux_transfers(s1, mio)
         IN  IF s.mux_channel # None /\ ~ select_mux_channel(s1, mio)
             THEN [sensor |-> s1, ret |-> FALSE, mux |-> mux, nreads |-> 0]
             ELSE IF ~ cio.probe
             THEN [sensor |-> s1, ret |-> FALSE, mux |-> mux, nreads |-> 0]
             ELSE LET r == SDP810Sensor_read_pressure_data(cio.frame)
                  IN  IF r[1] # None
                      THEN [sensor |-> [s1 EXCEPT !.is_connected = TRUE], ret |-> TRUE,
                            mux |-> mux, nreads |-> 1]
                      ELSE [sensor |-> s1, ret |-> FALSE, mux |-> mux, nreads |-> 1]

\* SDP810Sensor.read_pressure -> [ret, nreads, frame, mux]
SDP810Sensor_read_pressure(s, mio, io) ==
    IF ~ s.is_connected
    THEN [ret |-> None, nreads |-> 0, frame |-> IOError, mux |-> <<>>]
    ELSE IF s.mux_channel # None /\ ~ select_mux_channel(s, mio)
    THEN [ret |-> None, nreads |-> 0, frame |-> IOError, mux |-> mux_transfers(s, mio)]
    ELSE LET r == SDP810Sensor_read_pressure_data(OnBus(s, io))
         IN  IF r[1] # None /\ r[2]
             THEN [ret |-> r[1], nreads |-> 1, frame |-> OnBus(s, io),
                   mux |-> mux_transfers(s, mio)]
             ELSE [ret |-> None, nreads |-> 1, frame |-> OnBus(s, io),
                   mux |-> mux_transfers(s, mio)]

\* SDP810Sensor.read_pressure_with_crc -> [ret, crc_ok, nreads, frame, mux]
SDP810Sensor_read_pressure_with_crc(s, mio, io) ==
    IF ~ s.is_connected
    THEN [ret |-> None, crc_ok |-> FALSE, nreads |-> 0, frame |-> IOError, mux |-> <<>>]
    ELSE IF s.mux_channel # None /\ ~ select_mux_channel(s, mio)
    THEN [ret |-> None, crc_ok |-> FALSE, nreads |-> 0, frame |-> IOError,
          mux |-> mux_transfers(s, mio)]
    ELSE LET r == SDP810Sensor_read_pressure_data(OnBus(s, io))
         IN  [ret |-> r[1], crc_ok |-> r[2], nreads |-> 1, frame |-> OnBus(s, io),
              mux |-> mux_transfers(s, mio)]

RECURSIVE SDP810Sensor_retry_from(_, _, _, _)
SDP810Sensor_retry_from(s, ios, attempt, max_retries) ==
    IF attempt >= max_retries
    THEN [ret |-> None, nreads |-> attempt,
          frame |-> IF attempt = 0 THEN IOError ELSE OnBus(s, ios[attempt])]
    ELSE LET r == SDP810Sensor_read_pressure_data(OnBus(s, ios[attempt + 1]))
         IN  IF r[1] # None /\ r[2]
             THEN [ret |-> r[1], nreads |-> attempt + 1, frame |-> OnBus(s, ios[attempt + 1])]
             ELSE SDP810Sensor_retry_from(s, ios, attempt + 1, max_retries)

\* mutant: the loop runs without the is_connected test
SDP810Sensor_read_pressure_with_retry_unchecked(s, mio, ios, max_retries) ==
    IF s.mux_channel # None /\ ~ select_mux_channel(s, mio)
    THEN [ret |-> None, nreads |-> 0, frame |-> IOError, mux |-> mux_transfers(s, mio)]
    ELSE [mux |-> mux_transfers(s, mio)] @@ SDP810Sensor_retry_from(s, ios, 0, max_retries)

\* SDP810Sensor.read_pressure_with_retry -> [ret, nreads, frame, mux]; the
\* channel is selected once, before the first attempt
SDP810Sensor_read_pressure_with_retry(s, mio, ios, max_retries) ==
    IF ~ s.is_connected
    THEN [ret |-> None, nreads |-> 0, frame |-> IOError, mux |-> <<>>]
    ELSE IF s.mux_channel # None /\ ~ select_mux_channel(s, mio)
    THEN [ret |-> None, nreads |-> 0, frame |-> IOError, mux |-> mux_transfers(s, mio)]
    ELSE [mux |-> mux_transfers(s, mio)] @@ SDP810Sensor_retry_from(s, ios, 0, max_retries)

(***************************************************************************)
(* SpecSDP810: the two SDP810 scripts.  prog = "sdp810_sensor" is a caller *)
(* of the SDP810Sensor API; prog = "gui_sdp810_sensor" is SDP810Monitor    *)
(* with its sensor_loop threads.                                           *)
(***************************************************************************)
MaxWorkers == 2
MaxQueue == 2
MaxPoints == 2
MaxPending == 1
\* the cap of misses, the count of consecutive failed reads of a thread
MaxMisses == 10
\* sensor_loop threads alive at once in the specifications that count misses
\* (start_monitoring itself sets no limit)
MaxLoops == 1

GoodFrame(w) == <<w[1], w[2], calculate_crc8(w)>>
BadFrame(w) == <<w[1], w[2], 255 - calculate_crc8(w)>>

\* what a frame read can meet: an I/O error, +5 Pa, -1 Pa, and a frame of
\* +546 Pa whose CRC byte is wrong
SdpFrames ==
    {IOError, Read(GoodFrame(<<1, 44>>)), Read(GoodFrame(<<255, 196>>)),
     Read(BadFrame(<<127, 255>>))}

\* what the reads of one read_pressure_with_retry(3) can meet, attempt by
\* attempt: a valid frame at the first, second or third attempt, or none
SdpScripts ==
    LET g1 == Read(GoodFrame(<<1, 44>>))
        g2 == Read(GoodFrame(<<255, 196>>))
        bad == Read(BadFrame(<<127, 255>>))
    IN  {<<g1, g1, g1>>, <<g2, bad, IOError>>, <<bad, g2, g1>>, <<IOError, bad, g1>>,
         <<bad, IOError, bad>>, <<IOError, IOError, IOError>>}

RemoveAt(seq, i) == SubSeq(seq, 1, i - 1) \o SubSeq(seq, i + 1, Len(seq))
TakeLast(seq, n) == IF Len(seq) <= n THEN seq ELSE SubSeq(seq, Len(seq) - n + 1, Len(seq))

\* deque(maxlen = max_points).append
DequeAppend(d, x) == TakeLast(Append(d, x), MaxPoints)

SDP810Init ==
    /\ word = <<0, 0>>
    /\ res = Idle
    /\ prog \in {"sdp810_sensor", "gui_sdp810_sensor"}
    /\ sensor \in IF prog = "sdp810_sensor"
                  THEN {NewSensor(None), NewSensor(Some(2))}
                  ELSE {NewSensor(None)}
    /\ sensor_ready = FALSE
    /\ is_monitoring = FALSE
    /\ stop_pending = 0
    /\ workers = <<>>
    /\ data_queue = <<>>
    /\ history = <<>>
    /\ last = NoCall

monitorState == <<sensor_ready, is_monitoring, stop_pending, workers, data_queue, history>>

\* ---- sdp810_sensor.py: calls of the SDP810Sensor API ----
SensorConnect ==
    /\ prog = "sdp810_sensor"
    /\ \E cio \in ConnectIO(SdpFrames), mio \in MuxIO(2) :
         LET c == SDP810Sensor_connect(sensor, cio, mio)
         IN  /\ sensor' = c.sensor
             /\ last' = Call("connect", [NoRead EXCEPT !.frame = cio.frame, !.ret = Some(c.ret)],
                              FALSE, FALSE)
    /\ UNCHANGED <<wordVars, prog, monitorState>>

SensorReadPressure ==
    /\ prog = "sdp810_sensor"
    /\ \E mio \in MuxIO(2), io \in SdpFrames :
         last' = Call("read_pressure", SDP810Sensor_read_pressure(sensor, mio, io), FALSE, FALSE)
    /\ UNCHANGED <<wordVars, prog, sensor, monitorState>>

SensorReadPressureWithRetry ==
    /\ prog = "sdp810_sensor"
    /\ \E mio \in MuxIO(2), ios \in SdpScripts :
         last' = Call("read_pressure_with_retry",
                      SDP810Sensor_read_pressure_with_retry(sensor, mio, ios, 3), FALSE, FALSE)
    /\ UNCHANGED <<wordVars, prog, sensor, monitorState>>

SensorClose ==
    /\ prog = "sdp810_sensor"
    /\ sensor' = SDP810_close(sensor)
    /\ last' = Call("close", NoRead, FALSE, FALSE)
    /\ UNCHANGED <<wordVars, prog, monitorState>>

\* ---- gui_sdp810_sensor.py: SDP810Monitor ----
\* the test of background_sensor_detection and try_find_sensor: a test sensor
\* is connected, read once with retries and closed (scan_i2c_bus finding
\* nothing is the open |-> FALSE case) -> [found, rd]
SDP810_find_sensor(cio, ios) ==
    LET test_sensor == SimpleSDP810_connect(NewSensor(None), cio).sensor
        rd == SimpleSDP810_read_pressure_with_retry(test_sensor, ios, 3)
    IN  [found |-> rd.ret # None, rd |-> rd]

\* background_sensor_detection: on a reading self.sensor becomes a fresh
\* SimpleSDP810 and sensor_ready is set
SDP810DetectSensor ==
    /\ prog = "gui_sdp810_sensor"
    /\ ~ sensor_ready
    /\ \E cio \in ConnectIO(SdpFrames), ios \in SdpScripts :
         LET find == SDP810_find_sensor(cio, ios)
         IN  /\ sensor_ready' = find.found
             /\ sensor' = IF find.found THEN NewSensor(None) ELSE sensor
             /\ last' = Call("background_sensor_detection", find.rd, FALSE, FALSE)
    /\ UNCHANGED <<wordVars, prog, is_monitoring, stop_pending, workers, data_queue, history>>

\* toggle_monitoring: without a ready sensor try_find_sensor runs first and the
\* handler returns when it finds none; then start_monitoring sets the flag and
\* starts a sensor_loop thread, or stop_monitoring clears the flag
SDP810ToggleMonitoring ==
    /\ prog = "gui_sdp810_sensor"
    /\ \E cio \in IF sensor_ready THEN {[open |-> FALSE, probe |-> FALSE, frame |-> IOError]}
                   ELSE ConnectIO(SdpFrames),
          ios \in IF sensor_ready THEN {<<IOError, IOError, IOError>>} ELSE SdpScripts :
         LET find == SDP810_find_sensor(cio, ios)
             ready == sensor_ready \/ find.found
         IN  /\ sensor_ready' = ready
             /\ sensor' = IF ~ sensor_ready /\ find.found THEN NewSensor(None) ELSE sensor
             /\ IF ~ ready
                THEN UNCHANGED <<is_monitoring, workers>>
                ELSE IF ~ is_monitoring
                THEN /\ Len(workers) < MaxWorkers
                     /\ is_monitoring' = TRUE
                     /\ workers' = Append(workers, [pc |-> "connect", fail_count |-> 0])
                ELSE /\ is_monitoring' = FALSE
                     /\ UNCHANGED workers
             /\ last' = IF sensor_ready THEN Call("toggle_monitoring", NoRead, FALSE, FALSE)
                        ELSE Call("try_find_sensor", find.rd, FALSE, FALSE)
    /\ UNCHANGED <<wordVars, prog, stop_pending, data_queue, history>>

\* sensor_loop up to the while: self.sensor.connect(), fail_count = 0
SDP810WorkerConnect(w) ==
    /\ prog = "gui_sdp810_sensor"
    /\ workers[w].pc = "connect"
    /\ \E cio \in ConnectIO(SdpFrames) :
         LET c == SimpleSDP810_connect(sensor, cio)
         IN  /\ sensor' = c.sensor
             /\ last' = Call("sensor_loop_connect",
                              [NoRead EXCEPT !.frame = cio.frame, !.ret = Some(c.ret)],
                              FALSE, FALSE)
    /\ workers' = [workers EXCEPT ![w] = [pc |-> "loop", fail_count |-> 0]]
    /\ UNCHANGED <<wordVars, prog, sensor_ready, is_monitoring, stop_pending, data_queue, history>>

\* one pass of "while self.is_monitoring": the read with retries, the put, the
\* failure count, the reset at 3 failures, the stop at 10; or, with the flag
\* clear, the exit from the loop and self.sensor.close().  SimpleSDP810's
\* close() and connect() catch what they meet, so the reset always ends with
\* fail_count = 0 and the stop at 10 queues no callback in this script.
SDP810WorkerIteration(w) ==
    /\ prog = "gui_sdp810_sensor"
    /\ workers[w].pc = "loop"
    /\ IF ~ is_monitoring
       THEN /\ sensor' = SDP810_close(sensor)
            /\ workers' = RemoveAt(workers, w)
            /\ last' = Call("sensor_loop_exit", NoRead, FALSE, FALSE)
            /\ UNCHANGED <<stop_pending, data_queue>>
       ELSE \E ios \in SdpScripts :
              LET rd == SimpleSDP810_read_pressure_with_retry(sensor, ios, 3)
                  got == rd.ret # None
                  failed == IF got THEN 0 ELSE workers[w].fail_count + 1
                  reset == failed >= 3
              IN  \E cio \in IF reset THEN ConnectIO(SdpFrames) ELSE {IOError} :
                    LET sensor1 == IF reset
                                   THEN SimpleSDP810_connect(NewSensor(None), cio).sensor
                                   ELSE sensor
                        fail_count == IF reset THEN 0 ELSE failed
                        stop == fail_count >= 10
                    IN  /\ got => Len(data_queue) < MaxQueue
                        /\ stop => stop_pending < MaxPending
                        /\ data_queue' = IF got THEN Append(data_queue, Val(rd.ret))
                                         ELSE data_queue
                        /\ sensor' = IF stop THEN SDP810_close(sensor1) ELSE sensor1
                        /\ stop_pending' = IF stop THEN stop_pending + 1 ELSE stop_pending
                        /\ workers' = IF stop THEN RemoveAt(workers, w)
                                      ELSE [workers EXCEPT ![w].fail_count = fail_count]
                        /\ last' = Call("sensor_loop", rd, FALSE, got)
    /\ UNCHANGED <<wordVars, prog, sensor_ready, is_monitoring, history>>

\* mutant: the queue hands out the newest sample first (queue.LifoQueue)
RECURSIVE SDP810_update_gui_lifo(_, _)
SDP810_update_gui_lifo(hist, queue) ==
    IF queue = <<>> THEN hist
    ELSE SDP810_update_gui_lifo(DequeAppend(hist, queue[Len(queue)]),
                                SubSeq(queue, 1, Len(queue) - 1))

\* the while of update_gui over a queue: get_nowait() takes the oldest sample,
\* which is appended to the deque and shown
RECURSIVE SDP810_update_gui(_, _)
SDP810_update_gui(hist, queue) ==
    IF queue = <<>> THEN hist
    ELSE SDP810_update_gui(DequeAppend(hist, Head(queue)), Tail(queue))

\* update_gui: drain data_queue into the history deque on the Tk thread; a
\* put that falls into the drain is drained by it or by the next run, as if it
\* came before or after
SDP810UpdateGui ==
    /\ prog = "gui_sdp810_sensor"
    /\ history' = SDP810_update_gui(history, data_queue)
    /\ data_queue' = <<>>
    /\ last' = Call("update_gui", NoRead, FALSE, FALSE)
    /\ UNCHANGED <<wordVars, prog, sensor, sensor_ready, is_monitoring, stop_pending, workers>>

SDP810Next ==
    \/ SensorConnect
    \/ SensorReadPressure
    \/ SensorReadPressureWithRetry
    \/ SensorClose
    \/ SDP810DetectSensor
    \/ SDP810ToggleMonitoring
    \/ \E w \in 1 .. Len(workers) : SDP810WorkerConnect(w)
    \/ \E w \in 1 .. Len(workers) : SDP810WorkerIteration(w)
    \/ SDP810UpdateGui

SpecSDP810 == SDP810Init /\ [][SDP810Next]_vars

(***************************************************************************)
(* Claims checked under SpecSDP810.                                        *)
(***************************************************************************)
\* a transfer that delivered 3 bytes whose third is the CRC-8 of the first two
CrcValidFrame(io) ==
    /\ ~ io.err
    /\ Len(io.data) = 3
    /\ io.data[3] = Crc8Reference(io.data)

\* the pressures the valid frames of SdpFrames stand for
ValidSdpPressures ==
    {Clamp(SignedWord(io.data), -30000, 30000) : io \in {f \in SdpFrames : CrcValidFrame(f)}}

\* C3: every value returned by read_pressure and read_pressure_with_retry of
\* SDP810Sensor and SimpleSDP810, and every sample sensor_loop puts on
\* data_queue, was decoded from a 3-byte frame whose third byte is the CRC-8 of
\* the first two; a call whose last frame fails the CRC returns no value, and
\* no call leaves by an exception.
PressureFromValidFrame ==
    /\ last.op \in {"read_pressure", "read_pressure_with_retry", "sensor_loop",
                    "background_sensor_detection", "try_find_sensor"} =>
          /\ ~ last.raised
          /\ last.ret # None =>
                /\ last.nreads > 0
                /\ CrcValidFrame(last.frame)
                /\ Val(last.ret) * 60 =
                     PaUnit * (IF prog = "sdp810_sensor"
                               THEN SignedWord(last.frame.data)
                               ELSE Clamp(SignedWord(last.frame.data), -30000, 30000))
          /\ ~ CrcValidFrame(last.frame) => last.ret = None
          /\ last.enq <=> (last.op = "sensor_loop" /\ last.ret # None)
          /\ last.enq => /\ data_queue # <<>>
                         /\ data_queue[Len(data_queue)] = Val(last.ret)
    /\ \A i \in 1 .. Len(data_queue) : data_queue[i] \in ValidSdpPressures

\* a sample enqueued at the second attempt, the first frame having failed its CRC
PressureEnqueuedAfterCrcRetry ==
    /\ last.op = "sensor_loop"
    /\ last.enq
    /\ last.nreads = 2
    /\ last.ret = Some(-60)
    /\ Len(data_queue) = 2

(***************************************************************************)
(* SHT40 driver: SimpleSHT40 of gui_sht40.py and sht40.py (the two copies  *)
(* differ in sht40.py adding TEMPERATURE_OFFSET = HUMIDITY_OFFSET = 0.0).  *)
(* A driver object is [bus]: TRUE while self.bus holds an open SMBus.      *)
(* A reading is <<temperature, humidity>> in hundredths.                   *)
(***************************************************************************)
NewSHT40 == [bus |-> FALSE]

\* what connect() meets: SMBus() opens or raises, the soft reset is
\* acknowledged or raises
SHT40ConnectIO == {[open |-> FALSE, reset |-> FALSE], [open |-> TRUE, reset |-> FALSE],
                   [open |-> TRUE, reset |-> TRUE]}

\* SimpleSHT40.connect -> [sensor, raised]
SHT40_connect(s, cio) ==
    IF cio.open /\ cio.reset
    THEN [sensor |-> [s EXCEPT !.bus = TRUE], raised |-> FALSE]
    ELSE [sensor |-> [s EXCEPT !.bus = FALSE], raised |-> TRUE]

\* SimpleSHT40.close
SHT40_close(s) == [s EXCEPT !.bus = FALSE]

\* SimpleSHT40.read_temperature_humidity -> [raised, ret, frame]; io is what
\* the command write and the 6-byte read meet
SHT40_read_temperature_humidity(s, io) ==
    IF ~ s.bus THEN [raised |-> TRUE, ret |-> None, frame |-> IOError]
    ELSE IF io.err \/ Len(io.data) < 6 THEN [raised |-> TRUE, ret |-> None, frame |-> io]
    ELSE LET data == io.data
             t_data == <<data[1], data[2]>>
             t_crc == data[3]
             rh_data == <<data[4], data[5]>>
             rh_crc == data[6]
             t_crc_ok == verify_crc(t_data, t_crc)
             rh_crc_ok == verify_crc(rh_data, rh_crc)
             t_raw == BitOr(Shl(t_data[1], 8), t_data[2])
             rh_raw == BitOr(Shl(rh_data[1], 8), rh_data[2])
         IN  [raised |-> FALSE,
              ret |-> Some(<<SHT40_temperature(t_raw), SHT40_humidity(rh_raw)>>),
              frame |-> io]

\* the for-loop of read_with_retry from attempt on -> [ret, nreads, frame]
RECURSIVE SHT40_retry_from(_, _, _, _)
SHT40_retry_from(s, ios, attempt, max_retries) ==
    IF attempt >= max_retries
    THEN [ret |-> None, nreads |-> attempt,
          frame |-> IF attempt = 0 \/ ~ s.bus THEN IOError ELSE ios[attempt]]
    ELSE LET r == SHT40_read_temperature_humidity(s, ios[attempt + 1])
         IN  IF ~ r.raised /\ r.ret # None
             THEN [ret |-> r.ret, nreads |-> attempt + 1, frame |-> r.frame]
             ELSE SHT40_retry_from(s, ios, attempt + 1, max_retries)

\* SimpleSHT40.read_with_retry
SHT40_read_with_retry(s, ios, max_retries) == SHT40_retry_from(s, ios, 0, max_retries)

(***************************************************************************)
(* SpecSHT40: prog = "sht40" is a caller of the SimpleSHT40 API (sht40.py),*)
(* prog = "gui_sht40" is SHT40Monitor with its sensor_loop threads.        *)
(***************************************************************************)
ShtFrame(t, t_crc_ok, rh, rh_crc_ok) ==
    Read(<<t[1], t[2], IF t_crc_ok THEN calculate_crc(t) ELSE 255 - calculate_crc(t),
           rh[1], rh[2], IF rh_crc_ok THEN calculate_crc(rh) ELSE 255 - calculate_crc(rh)>>)

\* 25.0 C / 56.5 %RH with both CRC bytes right; a frame whose temperature
\* word fails its CRC; a frame whose humidity word fails its CRC
ShtGood == ShtFrame(<<102, 102>>, TRUE, <<128, 0>>, TRUE)
ShtBadT == ShtFrame(<<255, 255>>, FALSE, <<128, 0>>, TRUE)
ShtBadRH == ShtFrame(<<102, 102>>, TRUE, <<0, 0>>, FALSE)

\* what one measurement can meet
ShtFrames == {IOError, Read(<<102, 102, 153>>), ShtGood, ShtBadT, ShtBadRH}

\* what the measurements of one read_with_retry can meet, attempt by attempt
ShtScripts ==
    {<<ShtGood, ShtGood, ShtGood>>, <<ShtBadT, ShtGood, ShtGood>>,
     <<IOError, ShtGood, ShtGood>>, <<IOError, IOError, ShtGood>>,
     <<IOError, IOError, IOError>>}

SHT40Init ==
    /\ word = <<0, 0>>
    /\ res = Idle
    /\ prog \in {"sht40", "gui_sht40"}
    /\ sensor = NewSHT40
    /\ sensor_ready = FALSE
    /\ is_monitoring = FALSE
    /\ stop_pending = 0
    /\ workers = <<>>
    /\ data_queue = <<>>
    /\ history = <<>>
    /\ last = NoCall

\* ---- sht40.py: calls of the SimpleSHT40 API ----
Sht40Connect ==
    /\ prog = "sht40"
    /\ \E cio \in SHT40ConnectIO :
         LET c == SHT40_connect(sensor, cio)
         IN  /\ sensor' = c.sensor
             /\ last' = Call("connect", NoRead, c.raised, FALSE)
    /\ UNCHANGED <<wordVars, prog, monitorState>>

Sht40ReadTemperatureHumidity ==
    /\ prog = "sht40"
    /\ \E io \in ShtFrames :
         LET r == SHT40_read_temperature_humidity(sensor, io)
         IN  last' = Call("read_temperature_humidity",
                          [ret |-> r.ret, nreads |-> 1, frame |-> r.frame], r.raised, FALSE)
    /\ UNCHANGED <<wordVars, prog, sensor, monitorState>>

Sht40ReadWithRetry ==
    /\ prog = "sht40"
    /\ \E ios \in ShtScripts :
         last' = Call("read_with_retry", SHT40_read_with_retry(sensor, ios, 3), FALSE, FALSE)
    /\ UNCHANGED <<wordVars, prog, sensor, monitorState>>

Sht40Close ==
    /\ prog = "sht40"
    /\ sensor' = SHT40_close(sensor)
    /\ last' = Call("close", NoRead, FALSE, FALSE)
    /\ UNCHANGED <<wordVars, prog, monitorState>>

\* ---- gui_sht40.py: SHT40Monitor ----
\* the test of background_sensor_detection and try_find_sensor: connect()
\* raising, or read_with_retry returning None (which the tuple unpacking
\* turns into a TypeError), ends in the except branch -> [found, rd]
SHT40_find_sensor(cio, ios) ==
    LET c == SHT40_connect(NewSHT40, cio)
        rd == SHT40_read_with_retry(c.sensor, ios, 3)
    IN  IF c.raised THEN [found |-> FALSE, rd |-> NoRead]
        ELSE [found |-> rd.ret # None, rd |-> rd]

SHT40DetectSensor ==
    /\ prog = "gui_sht40"
    /\ ~ sensor_ready
    /\ \E cio \in SHT40ConnectIO, ios \in ShtScripts :
         LET find == SHT40_find_sensor(cio, ios)
         IN  /\ sensor_ready' = find.found
             /\ sensor' = IF find.found THEN NewSHT40 ELSE sensor
             /\ last' = Call("background_sensor_detection", find.rd, FALSE, FALSE)
    /\ UNCHANGED <<wordVars, prog, is_monitoring, stop_pending, workers, data_queue, history>>

SHT40ToggleMonitoring ==
    /\ prog = "gui_sht40"
    /\ \E cio \in IF sensor_ready THEN {[open |-> FALSE, reset |-> FALSE]} ELSE SHT40ConnectIO,
          ios \in IF sensor_ready THEN {<<IOError, IOError, IOError>>} ELSE ShtScripts :
         LET find == SHT40_find_sensor(cio, ios)
             ready == sensor_ready \/ find.found
         IN  /\ sensor_ready' = ready
             /\ sensor' = IF ~ sensor_ready /\ find.found THEN NewSHT40 ELSE sensor
             /\ IF ~ ready
                THEN UNCHANGED <<is_monitoring, workers>>
                ELSE IF ~ is_monitoring
                THEN /\ Len(workers) < MaxLoops
                     /\ is_monitoring' = TRUE
                     /\ workers' = Append(workers, [pc |-> "connect", fail_count |-> 0,
                                                  misses |-> 0])
                ELSE /\ is_monitoring' = FALSE
                     /\ UNCHANGED workers
             /\ last' = IF sensor_ready THEN Call("toggle_monitoring", NoRead, FALSE, FALSE)
                        ELSE Call("try_find_sensor", find.rd, FALSE, FALSE)
    /\ UNCHANGED <<wordVars, prog, stop_pending, data_queue, history>>

\* the callback queued by root.after(0, self.stop_monitoring)
SHT40ScheduledStop ==
    /\ prog = "gui_sht40"
    /\ stop_pending > 0
    /\ stop_pending' = stop_pending - 1
    /\ is_monitoring' = FALSE
    /\ last' = Call("stop_monitoring", NoRead, FALSE, FALSE)
    /\ UNCHANGED <<wordVars, prog, sensor, sensor_ready, workers, data_queue, history>>

\* sensor_loop up to the while: self.sensor.connect(); when it raises the
\* outer except closes the sensor and the thread ends, the run flag left set
SHT40WorkerConnect(w) ==
    /\ prog = "gui_sht40"
    /\ workers[w].pc = "connect"
    /\ \E cio \in SHT40ConnectIO :
         LET c == SHT40_connect(sensor, cio)
         IN  /\ sensor' = c.sensor
             /\ workers' = IF c.raised THEN RemoveAt(workers, w)
                           ELSE [workers EXCEPT ![w] = [pc |-> "loop", fail_count |-> 0,
                                                         misses |-> 0]]
             /\ last' = Call("sensor_loop_connect", NoRead, c.raised, FALSE)
    /\ UNCHANGED <<wordVars, prog, sensor_ready, is_monitoring, stop_pending, data_queue, history>>

\* mutant: the reset branch is taken only at a count of exactly 3
SHT40_reset_due_once(fail_count) == fail_count = 3

\* "if fail_count >= 3" of sensor_loop, the test of the reset branch
SHT40_reset_due(fail_count) == fail_count >= 3

\* one pass of "while self.is_monitoring": the measurement with retries, the
\* put, the failure count, the reset at 3 failures (fail_count stays when the
\* reconnect raises), the stop at 10; or, with the flag clear, the exit from
\* the loop and self.sensor.close().  misses counts the consecutive failed
\* passes of the thread, which fail_count is not once a reset went through.
SHT40WorkerIteration(w) ==
    /\ prog = "gui_sht40"
    /\ workers[w].pc = "loop"
    /\ IF ~ is_monitoring
       THEN /\ sensor' = SHT40_close(sensor)
            /\ workers' = RemoveAt(workers, w)
            /\ last' = Call("sensor_loop_exit", NoRead, FALSE, FALSE)
            /\ UNCHANGED <<stop_pending, data_queue>>
       ELSE \E ios \in ShtScripts :
              LET rd == SHT40_read_with_retry(sensor, ios, 3)
                  got == rd.ret # None
                  failed == IF got THEN 0 ELSE workers[w].fail_count + 1
                  reset == SHT40_reset_due(failed)
              IN  \E cio \in IF reset THEN SHT40ConnectIO ELSE {[open |-> FALSE, reset |-> FALSE]} :
                    LET c == SHT40_connect(NewSHT40, cio)
                        sensor1 == IF reset THEN c.sensor ELSE sensor
                        fail_count == IF reset /\ ~ c.raised THEN 0 ELSE failed
                        stop == fail_count >= 10
                        misses == IF got THEN 0 ELSE Min(workers[w].misses + 1, MaxMisses)
                    IN  /\ got => Len(data_queue) < MaxQueue
                        /\ stop => stop_pending < MaxPending
                        /\ data_queue' = IF got THEN Append(data_queue, Val(rd.ret))
                                         ELSE data_queue
                        /\ sensor' = IF stop THEN SHT40_close(sensor1) ELSE sensor1
                        /\ stop_pending' = IF stop THEN stop_pending + 1 ELSE stop_pending
                        /\ workers' = IF stop THEN RemoveAt(workers, w)
                                      ELSE [workers EXCEPT ![w].fail_count = fail_count,
                                                           ![w].misses = misses]
                        /\ last' = LoopCall(rd, got, failed, reset, reset /\ c.raised,
                                         fail_count)
    /\ UNCHANGED <<wordVars, prog, sensor_ready, is_monitoring, history>>

\* update_gui: drain data_queue into the temperature_data / humidity_data deques
SHT40UpdateGui ==
    /\ prog = "gui_sht40"
    /\ history' = TakeLast(history \o data_queue, MaxPoints)
    /\ data_queue' = <<>>
    /\ last' = Call("update_gui", NoRead, FALSE, FALSE)
    /\ UNCHANGED <<wordVars, prog, sensor, sensor_ready, is_monitoring, stop_pending, workers>>

SHT40Next ==
    \/ Sht40Connect
    \/ Sht40ReadTemperatureHumidity
    \/ Sht40ReadWithRetry
    \/ Sht40Close
    \/ SHT40DetectSensor
    \/ SHT40ToggleMonitoring
    \/ SHT40ScheduledStop
    \/ \E w \in 1 .. Len(workers) : SHT40WorkerConnect(w)
    \/ \E w \in 1 .. Len(workers) : SHT40WorkerIteration(w)
    \/ SHT40UpdateGui

SpecSHT40 == SHT40Init /\ [][SHT40Next]_vars

(***************************************************************************)
(* Claims checked under SpecSHT40.                                         *)
(***************************************************************************)
\* a transfer that delivered 6 bytes in which each CRC byte is the CRC-8 of
\* the word before it
ShtCrcValidFrame(io) ==
    /\ ~ io.err
    /\ Len(io.data) = 6
    /\ io.data[3] = Crc8Reference(<<io.data[1], io.data[2]>>)
    /\ io.data[6] = Crc8Reference(<<io.data[4], io.data[5]>>)

\* C2: a reading returned by read_temperature_humidity or read_with_retry, and
\* a sample sensor_loop puts on data_queue, is never computed from a frame in
\* which the temperature CRC byte or the humidity CRC byte is wrong.
ShtSampleFromValidFrame ==
    last.op \in {"read_temperature_humidity", "read_with_retry", "sensor_loop",
                 "background_sensor_detection", "try_find_sensor"} =>
        /\ last.ret # None => ShtCrcValidFrame(last.frame)
        /\ last.enq => ShtCrcValidFrame(last.frame)

(***************************************************************************)
(* BME688 driver: BME688Sensor of BME688/gui_bme688.py.  The module        *)
(* "constants" it imports (register addresses, masks, lookup tables,       *)
(* CalibrationData) is not part of the sources; the three masks and the    *)
(* lookup tables below carry the values of the vendor driver.              *)
(* A driver object is [bus, calibrated, temp_offset, cal_data]: bus is     *)
(* "none" before SMBus() returned, "open", or "closed" after close()       *)
(* (which leaves self.bus set); calibrated tells that read_calibration     *)
(* has filled cal_data.                                                     *)
(* As for the humidity, the double arithmetic is rendered in fixed point   *)
(* inside TLC's 32-bit integers: t_fine in its own unit, the temperature   *)
(* in hundredths of a degree, the pressure in Pa (hundredths of the hPa    *)
(* returned), the gas resistance in units of 8 ohm.  Against the double    *)
(* formulas: t_fine within 55 (0.011 C), pressure within 0.1 hPa, gas      *)
(* resistance within 0.02 %, for the calibration sets and frames below.    *)
(***************************************************************************)
NEW_DATA_MSK == 128
GASM_VALID_MSK == 32
HEAT_STAB_MSK == 16

\* const.lookupTable1 / 65536 and const.lookupTable2 / 4096, index gas_range + 1
lookupTable1 ==
    <<32767, 32767, 32767, 32767, 32767, 32440, 32767, 32505,
      32767, 32767, 32702, 32604, 32767, 32440, 32767, 32767>>
lookupTable2 ==
    <<1000000, 500000, 250000, 125000, 62437, 31032, 15625, 7875,
      3910, 1953, 976, 488, 244, 122, 61, 30>>

\* const.CalibrationData() before read_calibration
BlankCalibration ==
    [par_t1 |-> 0, par_t2 |-> 0, par_t3 |-> 0,
     par_p1 |-> 0, par_p2 |-> 0, par_p3 |-> 0, par_p4 |-> 0, par_p5 |-> 0,
     par_p6 |-> 0, par_p7 |-> 0, par_p8 |-> 0, par_p9 |-> 0, par_p10 |-> 0,
     par_h1 |-> 0, par_h2 |-> 0, par_h3 |-> 0, par_h4 |-> 0, par_h5 |-> 0,
     par_h6 |-> 0, par_h7 |-> 0, res_heat_range |-> 0, t_fine |-> 0]

\* BME688Sensor.__init__; the monitor passes temp_offset = -9.2
NewBME688 ==
    [bus |-> "none", calibrated |-> FALSE, temp_offset |-> -920,
     cal_data |-> BlankCalibration]

\* the bus transfers of connect() in program order: SMBus(), the chip-ID
\* read, the soft-reset write, read_calibration (the two coefficient blocks,
\* then the heater range / value / switching-error registers),
\* configure_sensor (the three oversampling and filter writes) and the four
\* writes of setup_gas_sensor
ConnectSteps ==
    <<"open", "chip_id", "reset", "calibration", "cal_other", "configure",
      "res_heat", "gas_wait", "run_gas", "heat_ctrl">>

\* the writes of setup_gas_sensor
GasSteps == {"res_heat", "gas_wait", "run_gas", "heat_ctrl"}

\* what connect() meets: the step that fails (none: every step succeeds) and
\* the calibration block the chip holds
BmeConnectIO ==
    {[fail |-> f, cal |-> c] :
        f \in {ConnectSteps[i] : i \in 1 .. Len(ConnectSteps)} \cup {"none"},
        c \in CalSamples}

\* the transfers connect() attempts when step fail fails: every routine
\* leaves at its first failing transfer, and nothing follows setup_gas_sensor
BME688_connect_steps(fail) ==
    LET n == IF fail = "none" THEN Len(ConnectSteps)
             ELSE CHOOSE i \in 1 .. Len(ConnectSteps) : ConnectSteps[i] = fail
    IN  [i \in 1 .. n |-> [step |-> ConnectSteps[i], ok |-> ConnectSteps[i] # fail]]

\* mutant: the result of read_calibration is not tested
BME688_connect_ret_uncalibrated(fail) ==
    fail \notin {"open", "chip_id", "reset", "configure"}

\* what connect() returns: False from the chip-ID test, from a failed
\* read_calibration or configure_sensor and from the except clause; the
\* except clause of setup_gas_sensor only prints a warning
BME688_connect_ret(fail) ==
    fail \notin {"open", "chip_id", "reset", "calibration", "cal_other", "configure"}

\* BME688Sensor.connect -> [sensor, ret, steps]; read_calibration fills the
\* coefficients (set_from_array), then the heater values (set_other), and
\* leaves t_fine alone
BME688_connect(s, cio) ==
    LET ret == BME688_connect_ret(cio.fail)
        steps == BME688_connect_steps(cio.fail)
    IN  IF cio.fail = "open" THEN [sensor |-> s, ret |-> ret, steps |-> steps]
        ELSE IF cio.fail \in {"chip_id", "reset", "calibration"}
        THEN [sensor |-> [s EXCEPT !.bus = "open"], ret |-> ret, steps |-> steps]
        ELSE IF cio.fail = "cal_other"
        THEN [sensor |-> [s EXCEPT !.bus = "open",
                                   !.cal_data = [cio.cal EXCEPT
                                       !.t_fine = s.cal_data.t_fine,
                                       !.res_heat_range = s.cal_data.res_heat_range]],
              ret |-> ret, steps |-> steps]
        ELSE [sensor |-> [s EXCEPT !.bus = "open", !.calibrated = TRUE,
                                   !.cal_data = [cio.cal EXCEPT !.t_fine = s.cal_data.t_fine]],
              ret |-> ret, steps |-> steps]

\* BME688Sensor.close
BME688_close(s) == IF s.bus # "none" THEN [s EXCEPT !.bus = "closed"] ELSE s

\* mutant: the middle byte is shifted by 5, its bits overlap the high byte's
read_field_data_overlap(s, io) ==
    IF s.bus # "open" \/ io.err THEN None
    ELSE IF BitAnd(io.status, NEW_DATA_MSK) = 0 THEN None
    ELSE Some([temp_adc |-> BitOr(BitOr(Shl(io.temp_data[1], 12), Shl(io.temp_data[2], 5)),
                                  Shr(io.temp_data[3], 4)),
               press_adc |-> BitOr(BitOr(Shl(io.press_data[1], 12), Shl(io.press_data[2], 5)),
                                   Shr(io.press_data[3], 4)),
               hum_adc |-> BitOr(Shl(io.hum_data[1], 8), io.hum_data[2]),
               gas_adc |-> BitOr(Shl(io.gas_data[1], 2), Shr(io.gas_data[2], 6)),
               gas_range |-> BitAnd(io.gas_data[2], 15),
               gas_valid |-> BitAnd(io.gas_data[2], GASM_VALID_MSK),
               heat_stable |-> BitAnd(io.gas_data[2], HEAT_STAB_MSK)])

\* BME688Sensor.read_field_data -> None or the dict of raw codes; io is what
\* the mode write and the register reads meet (err: one of them raises)
read_field_data(s, io) ==
    IF s.bus # "open" \/ io.err THEN None
    ELSE LET status == io.status
             new_data == BitAnd(status, NEW_DATA_MSK)
         IN  IF new_data = 0 THEN None
             ELSE LET temp_data == io.temp_data
                      temp_adc == BitOr(BitOr(Shl(temp_data[1], 12), Shl(temp_data[2], 4)),
                                        Shr(temp_data[3], 4))
                      press_data == io.press_data
                      press_adc == BitOr(BitOr(Shl(press_data[1], 12), Shl(press_data[2], 4)),
                                         Shr(press_data[3], 4))
                      hum_data == io.hum_data
                      hum_adc == BitOr(Shl(hum_data[1], 8), hum_data[2])
                      gas_data == io.gas_data
                      gas_adc == BitOr(Shl(gas_data[1], 2), Shr(gas_data[2], 6))
                      gas_range == BitAnd(gas_data[2], 15)
                      gas_valid == BitAnd(gas_data[2], GASM_VALID_MSK)
                      heat_stable == BitAnd(gas_data[2], HEAT_STAB_MSK)
                  IN  Some([temp_adc |-> temp_adc, press_adc |-> press_adc,
                            hum_adc |-> hum_adc, gas_adc |-> gas_adc,
                            gas_range |-> gas_range, gas_valid |-> gas_valid,
                            heat_stable |-> heat_stable])

\* BME688Sensor.compensate_temperature -> [sensor, ret]: it stores t_fine.
\* With a = temp_adc - 16*par_t1, var1 = a*par_t2/2^14 and var2 = a^2*par_t3/2^30.
compensate_temperature(s, temp_adc) ==
    LET a == temp_adc - 16 * s.cal_data.par_t1
        var1 == ((a \div 32) * s.cal_data.par_t2) \div 512
        var2 == (((a \div 1024) * (a \div 1024)) * s.cal_data.par_t3) \div 1024
        t_fine == var1 + var2
        temp_comp == (5 * t_fine) \div 256
    IN  [sensor |-> [s EXCEPT !.cal_data.t_fine = t_fine],
         ret |-> temp_comp + s.temp_offset]

\* BME688Sensor.compensate_pressure, result in Pa
compensate_pressure(s, press_adc) ==
    LET cal == s.cal_data
        var1a == (cal.t_fine \div 2) - 64000
        sq == (var1a \div 4) * (var1a \div 4)
        var2a == ((sq \div 2048) * cal.par_p6) \div 4
        var2b == var2a + (var1a * cal.par_p5) * 2
        var2c == (var2b \div 4) + cal.par_p4 * 65536
        var1b == (((sq \div 8192) * (cal.par_p3 * 32)) \div 8 + (cal.par_p2 * var1a) \div 2)
                   \div 262144
        var1c == ((32768 + var1b) * cal.par_p1) \div 32768
    IN  IF var1c = 0 THEN 0
        ELSE LET x == (1048576 - press_adc - (var2c \div 4096)) * 625
                 press_comp == (x \div var1c) * 10 + ((x % var1c) * 10) \div var1c
                 var1 == (cal.par_p9 * (((press_comp \div 8) * (press_comp \div 8)) \div 8192))
                           \div 4096
                 var2 == ((press_comp \div 4) * cal.par_p8) \div 8192
                 c256 == press_comp \div 256
                 var3 == (((c256 * c256 * c256) \div 128) * cal.par_p10) \div 1024
             IN  press_comp + (var1 + var2 + var3 + cal.par_p7 * 128) \div 16

\* BME688Sensor.compensate_gas_resistance, result in units of 8 ohm
compensate_gas_resistance(s, gas_adc, gas_range) ==
    IF gas_adc = 0 \/ gas_range >= Len(lookupTable1) THEN 0
    ELSE LET var1 == lookupTable1[gas_range + 1]
             var2 == lookupTable2[gas_range + 1]
             var3 == (1340 + 5 * s.cal_data.res_heat_range) * var1
         IN  var3 \div 8 + var2 * gas_adc + gas_adc \div 8

\* one entry of the record of compensation calls a read made: the routine and
\* the t_fine it found in cal_data
CompCall(f, s) == [f |-> f, t_fine |-> s.cal_data.t_fine]

\* mutant: the pressure and the humidity are compensated before the temperature
read_sensor_data_temperature_last(s, io) ==
    LET field_data == read_field_data(s, io)
    IN  IF field_data = None
        THEN [sensor |-> s, ret |-> None, calls |-> <<>>]
        ELSE LET fd == Val(field_data)
                 t == compensate_temperature(s, fd.temp_adc)
                 gas_on == fd.gas_valid # 0 /\ fd.heat_stable # 0
             IN  [sensor |-> t.sensor,
                  ret |-> Some([temperature |-> t.ret,
                                pressure |-> compensate_pressure(s, fd.press_adc),
                                humidity |-> compensate_humidity(s.cal_data, s.cal_data.t_fine,
                                                                 fd.hum_adc),
                                gas_resistance |->
                                    IF gas_on
                                    THEN compensate_gas_resistance(t.sensor, fd.gas_adc, fd.gas_range)
                                    ELSE 0,
                                gas_valid |-> fd.gas_valid # 0,
                                heat_stable |-> fd.heat_stable # 0]),
                  calls |-> <<CompCall("compensate_pressure", s),
                              CompCall("compensate_humidity", s),
                              CompCall("compensate_temperature", s)>>
                            \o (IF gas_on THEN <<CompCall("compensate_gas_resistance", t.sensor)>>
                                ELSE <<>>)]

\* mutant: the gas resistance is compensated whenever gas_valid is set
read_sensor_data_gas_valid_only(s, io) ==
    LET field_data == read_field_data(s, io)
    IN  IF field_data = None
        THEN [sensor |-> s, ret |-> None, calls |-> <<>>]
        ELSE LET fd == Val(field_data)
                 t == compensate_temperature(s, fd.temp_adc)
                 s1 == t.sensor
                 gas_on == fd.gas_valid # 0
             IN  [sensor |-> s1,
                  ret |-> Some([temperature |-> t.ret,
                                pressure |-> compensate_pressure(s1, fd.press_adc),
                                humidity |-> compensate_humidity(s1.cal_data, s1.cal_data.t_fine,
                                                                 fd.hum_adc),
                                gas_resistance |->
                                    IF gas_on
                                    THEN compensate_gas_resistance(s1, fd.gas_adc, fd.gas_range)
                                    ELSE 0,
                                gas_valid |-> fd.gas_valid # 0,
                                heat_stable |-> fd.heat_stable # 0]),
                  calls |-> <<CompCall("compensate_temperature", s),
                              CompCall("compensate_pressure", s1),
                              CompCall("compensate_humidity", s1)>>
                            \o (IF gas_on THEN <<CompCall("compensate_gas_resistance", s1)>>
                                ELSE <<>>)]

\* BME688Sensor.read_sensor_data -> [sensor, ret, calls]: ret is None or the
\* sample, calls the compensation routines in the order they ran
read_sensor_data(s, io) ==
    LET field_data == read_field_data(s, io)
    IN  IF field_data = None
        THEN [sensor |-> s, ret |-> None, calls |-> <<>>]
        ELSE LET fd == Val(field_data)
                 t == compensate_temperature(s, fd.temp_adc)
                 s1 == t.sensor
                 temperature == t.ret
                 pressure == compensate_pressure(s1, fd.press_adc)
                 humidity == compensate_humidity(s1.cal_data, s1.cal_data.t_fine, fd.hum_adc)
                 gas_on == fd.gas_valid # 0 /\ fd.heat_stable # 0
                 gas_resistance == IF gas_on
                                   THEN compensate_gas_resistance(s1, fd.gas_adc, fd.gas_range)
                                   ELSE 0
             IN  [sensor |-> s1,
                  ret |-> Some([temperature |-> temperature, pressure |-> pressure,
                                humidity |-> humidity, gas_resistance |-> gas_resistance,
                                gas_valid |-> fd.gas_valid # 0,
                                heat_stable |-> fd.heat_stable # 0]),
                  calls |-> <<CompCall("compensate_temperature", s),
                              CompCall("compensate_pressure", s1),
                              CompCall("compensate_humidity", s1)>>
                            \o (IF gas_on THEN <<CompCall("compensate_gas_resistance", s1)>>
                                ELSE <<>>)]

(***************************************************************************)
(* SpecBME688: a caller of the BME688Sensor API, as find_bme688 and        *)
(* sensor_loop of gui_bme688.py use it: connect, read_sensor_data, close.  *)
(***************************************************************************)
BmeIO(err, status, temp_data, press_data, hum_data, gas_data) ==
    [err |-> err, status |-> status, temp_data |-> temp_data, press_data |-> press_data,
     hum_data |-> hum_data, gas_data |-> gas_data]

\* the frames read_sensor_data meets: a failing transfer, a status without
\* new data, and frames with new data: 20 C and 33 C; two pressure / humidity
\* pairs; gas bytes with each combination of gas_valid (0x20) and heat_stable
\* (0x10), gas_adc zero and nonzero, gas_range 0, 4 and 15
BmeFrames ==
    {BmeIO(TRUE, 128, <<117, 48, 80>>, <<73, 62, 0>>, <<80, 0>>, <<128, 52>>),
     BmeIO(FALSE, 0, <<117, 48, 80>>, <<73, 62, 0>>, <<80, 0>>, <<128, 52>>)}
    \cup {BmeIO(FALSE, 128, t, ph[1], ph[2], <<g0, g1>>) :
             t \in {<<117, 48, 80>>, <<126, 244, 16>>},
             ph \in {<<<<73, 62, 0>>, <<80, 0>>>>, <<<<85, 115, 0>>, <<100, 0>>>>},
             g0 \in {0, 128}, g1 \in {4, 20, 36, 52, 48, 255}}

BmeCall(op, io, before, ret, calls) ==
    [op |-> op, io |-> io, before |-> before, ret |-> ret, calls |-> calls]

NoBmeIO == BmeIO(TRUE, 0, <<0, 0, 0>>, <<0, 0, 0>>, <<0, 0>>, <<0, 0>>)

BME688Init ==
    /\ word = <<0, 0>>
    /\ res = Idle
    /\ prog = "gui_bme688"
    /\ sensor = NewBME688
    /\ sensor_ready = FALSE
    /\ is_monitoring = FALSE
    /\ stop_pending = 0
    /\ workers = <<>>
    /\ data_queue = <<>>
    /\ history = <<>>
    /\ last = BmeCall("none", NoBmeIO, 0, None, <<>>)

BME688Connect ==
    /\ \E cio \in BmeConnectIO :
         LET c == BME688_connect(sensor, cio)
         IN  /\ sensor' = c.sensor
             /\ last' = BmeCall("connect", NoBmeIO, sensor.cal_data.t_fine, Some(c.ret), c.steps)
    /\ UNCHANGED <<wordVars, prog, monitorState>>

\* read_sensor_data; the callers read only a sensor whose calibration is loaded
BME688ReadSensorData ==
    /\ sensor.calibrated
    /\ \E io \in BmeFrames :
         LET r == read_sensor_data(sensor, io)
         IN  /\ sensor' = r.sensor
             /\ last' = BmeCall("read_sensor_data", io, sensor.cal_data.t_fine, r.ret, r.calls)
    /\ UNCHANGED <<wordVars, prog, monitorState>>

BME688Close ==
    /\ sensor' = BME688_close(sensor)
    /\ last' = BmeCall("close", NoBmeIO, sensor.cal_data.t_fine, None, <<>>)
    /\ UNCHANGED <<wordVars, prog, monitorState>>

BME688Next ==
    \/ BME688Connect
    \/ BME688ReadSensorData
    \/ BME688Close

SpecBME688 == BME688Init /\ [][BME688Next]_vars

(***************************************************************************)
(* Claims checked under SpecBME688.                                        *)
(***************************************************************************)
\* the 20-bit code of three register bytes, by arithmetic
Code20(b) == b[1] * 4096 + b[2] * 16 + (b[3] \div 16)

\* bit k (a power of two) of byte b
BitSet(b, k) == (b \div k) % 2 = 1

\* C7: the gas_resistance of a sample returned by read_sensor_data is 0 when
\* the frame's gas_valid bit or its heat_stable bit is clear, whatever gas_adc
\* and gas_range are; compensate_gas_resistance is not called then; and the
\* sample's gas_valid and heat_stable are those two bits.
GasZeroUnlessValidAndStable ==
    (last.op = "read_sensor_data" /\ last.ret # None) =>
        LET sample == Val(last.ret)
            valid == BitSet(last.io.gas_data[2], GASM_VALID_MSK)
            stable == BitSet(last.io.gas_data[2], HEAT_STAB_MSK)
            called == \E i \in 1 .. Len(last.calls) :
                         last.calls[i].f = "compensate_gas_resistance"
        IN  /\ sample.gas_valid = valid
            /\ sample.heat_stable = stable
            /\ (~ valid \/ ~ stable) => (sample.gas_resistance = 0 /\ ~ called)
            /\ called <=> (valid /\ stable)

\* a frame with gas_valid set, heat_stable clear and a nonzero gas_adc
GasSuppressedWhileHeating ==
    /\ last.op = "read_sensor_data"
    /\ last.ret # None
    /\ last.io.gas_data = <<128, 36>>
    /\ Val(last.ret).gas_valid
    /\ ~ Val(last.ret).heat_stable
    /\ Val(last.ret).gas_resistance = 0

BmeCornerBytes == {0, 1, 15, 16, 17, 63, 64, 128, 240, 255}

\* the triple rotated left by r positions
Rotated(b, r) == [i \in 1 .. 3 |-> b[((i + r - 1) % 3) + 1]]

AssembleFieldData ==
    /\ res = Idle
    /\ \E b2 \in BmeCornerBytes, r \in 0 .. 2, status \in {127, 128} :
         LET b == <<word[1], word[2], b2>>
             io == BmeIO(FALSE, status, Rotated(b, r), Rotated(b, r + 1),
                         <<word[1], word[2]>>, <<word[2], word[1]>>)
         IN  res' = [op |-> "read_field_data", io |-> io,
                     ret |-> read_field_data([NewBME688 EXCEPT !.bus = "open"], io)]
    /\ UNCHANGED <<word, monVars>>

SpecBME688Field == WordInit /\ [][AssembleFieldData]_vars

(***************************************************************************)
(* Claims checked under SpecBME688Field.                                   *)
(***************************************************************************)
\* C6: for all register bytes read_field_data assembles temp_adc and press_adc
\* as b0*4096 + b1*16 + (b2 div 16), within 0..2^20-1, hum_adc as b0*256 + b1,
\* within 0..65535, gas_adc as b0*4 + (b1 div 64), within 0..1023, and
\* gas_range as b1 mod 16, within 0..15: the OR of the shifted bytes is their sum.
FieldCodesAssembled ==
    res.op = "read_field_data" =>
        LET io == res.io
            new_data == io.status >= 128
            fd == Val(res.ret)
        IN  /\ res.ret # None <=> new_data
            /\ new_data =>
                 /\ fd.temp_adc = Code20(io.temp_data)
                 /\ fd.temp_adc \in 0 .. 1048575
                 /\ fd.press_adc = Code20(io.press_data)
                 /\ fd.press_adc \in 0 .. 1048575
                 /\ fd.hum_adc = io.hum_data[1] * 256 + io.hum_data[2]
                 /\ fd.hum_adc \in 0 .. 65535
                 /\ fd.gas_adc = io.gas_data[1] * 4 + (io.gas_data[2] \div 64)
                 /\ fd.gas_adc \in 0 .. 1023
                 /\ fd.gas_range = io.gas_data[2] % 16
                 /\ fd.gas_range \in 0 .. 15

\* every register at 0xFF gives the largest codes
FieldCodesLargest ==
    /\ res.op = "read_field_data"
    /\ res.io.temp_data = <<255, 255, 255>>
    /\ res.ret # None
    /\ Val(res.ret).temp_adc = 1048575
    /\ Val(res.ret).gas_adc = 1023

(***************************************************************************)
(* SpecBME688Monitor: BME688MonitorGUI of gui_bme688.py.  The threads are  *)
(* the Tk thread (toggle_monitoring, update_gui, on_closing), the          *)
(* background_sensor_detection thread started by __init__, and the         *)
(* sensor_loop threads; workers holds the background threads, each at a    *)
(* position pc.  A sensor_loop thread is at "loop" before the test of      *)
(* "while self.is_monitoring" (asleep or about to test) and at "read"      *)
(* between that test and the end of read_sensor_data; misses counts its    *)
(* consecutive reads that gave no sample (the code keeps no such count).   *)
(* prog becomes "gui_bme688_closing" when on_closing has stopped and       *)
(* closed and sleeps, and "exited" after root.destroy().                   *)
(***************************************************************************)

\* the calibration block the chip of the monitor holds
BmeMonitorConnectIO == {cio \in BmeConnectIO : cio.cal.par_t1 = 25918}

\* the frames a read of the monitor meets: a failing transfer, a status
\* without new data, 20 C / 1078 hPa / 52 %, and that frame with a raw
\* temperature of 9 C (below 0 C after the -9.2 C offset)
BmeMonitorFrames ==
    {BmeIO(TRUE, 128, <<117, 48, 80>>, <<73, 62, 0>>, <<80, 0>>, <<128, 52>>),
     BmeIO(FALSE, 0, <<117, 48, 80>>, <<73, 62, 0>>, <<80, 0>>, <<128, 52>>),
     BmeIO(FALSE, 128, <<117, 48, 80>>, <<73, 62, 0>>, <<80, 0>>, <<128, 52>>),
     BmeIO(FALSE, 128, <<108, 0, 0>>, <<73, 62, 0>>, <<80, 0>>, <<128, 52>>)}

MonCall(op, ret) == BmeCall(op, NoBmeIO, 0, ret, <<>>)

\* the five deques of __init__ and the sample the value labels show
NoHistory ==
    [timestamps |-> <<>>, temperature_data |-> <<>>, humidity_data |-> <<>>,
     pressure_data |-> <<>>, gas_data |-> <<>>, displayed |-> None]

\* the dict sensor_loop puts on data_queue; the model keeps no clock, every
\* datetime.now() is the token "now"
Measurement(data) ==
    [timestamp |-> "now", temperature |-> data.temperature, humidity |-> data.humidity,
     pressure |-> data.pressure, gas_resistance |-> data.gas_resistance]

\* mutant: the six comparisons admit their bounds
Plausible_inclusive(data) ==
    /\ data.temperature >= 0 /\ data.temperature <= 100 * 100
    /\ data.humidity >= 0 /\ data.humidity <= 100 * HumUnit
    /\ data.pressure >= 800 * 100 /\ data.pressure <= 1200 * 100

\* the test of update_gui, in the units of the sample: hundredths of a degree,
\* 1/1024 %RH, Pa
Plausible(data) ==
    /\ data.temperature > 0 /\ data.temperature < 100 * 100
    /\ data.humidity > 0 /\ data.humidity < 100 * HumUnit
    /\ data.pressure > 800 * 100 /\ data.pressure < 1200 * 100

BME688MonitorInit ==
    /\ word = <<0, 0>>
    /\ res = Idle
    /\ prog = "gui_bme688"
    /\ sensor = NewBME688
    /\ sensor_ready = FALSE
    /\ is_monitoring = FALSE
    /\ stop_pending = 0
    /\ workers = <<[pc |-> "detect", misses |-> 0]>>
    /\ data_queue = <<>>
    /\ history = NoHistory
    /\ last = MonCall("none", None)

BmeRunning == prog \in {"gui_bme688", "gui_bme688_closing"}

\* the sensor_loop threads among the background threads
SensorLoops == {w \in 1 .. Len(workers) : workers[w].pc \in {"loop", "read"}}

\* background_sensor_detection up to the stabilisation reads: find_bme688,
\* BME688Sensor(...), connect(); sensor_ready is set before the reads
BmeDetectConnect(w) ==
    /\ BmeRunning
    /\ workers[w].pc = "detect"
    /\ \E found \in BOOLEAN, cio \in BmeMonitorConnectIO :
         LET c == BME688_connect(NewBME688, cio)
             ok == found /\ c.ret
         IN  /\ sensor' = IF found THEN c.sensor ELSE sensor
             /\ sensor_ready' = ok
             /\ workers' = IF ok THEN [workers EXCEPT ![w].pc = "stabilize"]
                           ELSE RemoveAt(workers, w)
             /\ last' = BmeCall("background_sensor_detection", NoBmeIO, 0, Some(ok),
                                 IF found THEN c.steps ELSE <<>>)
    /\ UNCHANGED <<wordVars, prog, is_monitoring, stop_pending, data_queue, history>>

\* background_sensor_detection from the stabilisation on: three
\* read_field_data calls, which store nothing, and the test read_sensor_data
BmeDetectTestRead(w) ==
    /\ BmeRunning
    /\ workers[w].pc = "stabilize"
    /\ \E io \in BmeMonitorFrames :
         LET r == read_sensor_data(sensor, io)
         IN  /\ sensor' = r.sensor
             /\ last' = MonCall("test_read", r.ret)
    /\ workers' = RemoveAt(workers, w)
    /\ UNCHANGED <<wordVars, prog, sensor_ready, is_monitoring, stop_pending, data_queue,
                   history>>

\* toggle_monitoring with start_monitoring and stop_monitoring: without a
\* ready sensor it only shows an error box
BmeToggleMonitoring ==
    /\ prog = "gui_bme688"
    /\ IF ~ sensor_ready
       THEN UNCHANGED <<is_monitoring, workers>>
       ELSE IF ~ is_monitoring
       THEN /\ Cardinality(SensorLoops) < MaxLoops
            /\ is_monitoring' = TRUE
            /\ workers' = Append(workers, [pc |-> "loop", misses |-> 0])
       ELSE /\ is_monitoring' = FALSE
            /\ UNCHANGED workers
    /\ last' = MonCall("toggle_monitoring", None)
    /\ UNCHANGED <<wordVars, prog, sensor, sensor_ready, stop_pending, data_queue, history>>

\* sensor_loop: the sleep and the test of "while self.is_monitoring"; with the
\* flag clear the thread ends (this loop does not close the sensor)
BmeWorkerTest(w) ==
    /\ BmeRunning
    /\ workers[w].pc = "loop"
    /\ workers' = IF is_monitoring THEN [workers EXCEPT ![w].pc = "read"]
                  ELSE RemoveAt(workers, w)
    /\ last' = MonCall(IF is_monitoring THEN "sensor_loop_test" ELSE "sensor_loop_exit", None)
    /\ UNCHANGED <<wordVars, prog, sensor, sensor_ready, is_monitoring, stop_pending,
                   data_queue, history>>

\* the sample of a read_sensor_data whose compensate_pressure and
\* compensate_humidity ran after another thread's compensate_temperature
\* stored the t_fine of its own frame (other) in the shared cal_data
RacedRead(s, io, other) ==
    LET r == read_sensor_data(s, io)
        seen == compensate_temperature(s, Val(read_field_data(s, other)).temp_adc).sensor
        fd == Val(read_field_data(s, io))
    IN  IF r.ret = None \/ read_field_data(s, other) = None THEN r
        ELSE [r EXCEPT !.sensor = seen,
                       !.ret = Some([Val(r.ret) EXCEPT
                                        !.pressure = compensate_pressure(seen, fd.press_adc),
                                        !.humidity = compensate_humidity(seen.cal_data,
                                                         seen.cal_data.t_fine, fd.hum_adc)])]

\* sensor_loop: the body of the while: read_sensor_data, the put of the
\* measurement or the "read failed" log line; nothing counts the failures and
\* no branch leaves the loop.  While the detection thread is in its reads the
\* two read cycles share the handle and cal_data.t_fine without a lock: the
\* read may see the t_fine of any frame the other thread reads.
BmeWorkerRead(w) ==
    /\ BmeRunning
    /\ workers[w].pc = "read"
    /\ \E io \in BmeMonitorFrames :
         \E other \in IF \E d \in 1 .. Len(workers) : workers[d].pc = "stabilize"
                      THEN BmeMonitorFrames ELSE {io} :
           LET r == RacedRead(sensor, io, other)
               got == r.ret # None
           IN  /\ got => Len(data_queue) < MaxQueue
               /\ sensor' = r.sensor
               /\ data_queue' = IF got THEN Append(data_queue, Measurement(Val(r.ret)))
                                ELSE data_queue
               /\ workers' = [workers EXCEPT ![w] =
                                [pc |-> "loop",
                                 misses |-> IF got THEN 0 ELSE Min(@.misses + 1, MaxMisses)]]
               /\ last' = MonCall("sensor_loop_read", r.ret)
    /\ UNCHANGED <<wordVars, prog, sensor_ready, is_monitoring, stop_pending, history>>

\* the while of update_gui over a queue: a plausible sample goes to the five
\* deques and the value labels, any other is only logged
RECURSIVE BME688_update_gui(_, _)
BME688_update_gui(hist, queue) ==
    IF queue = <<>> THEN hist
    ELSE LET data == Head(queue)
         IN  BME688_update_gui(
                 IF Plausible(data)
                 THEN [timestamps |-> DequeAppend(hist.timestamps, data.timestamp),
                       temperature_data |-> DequeAppend(hist.temperature_data, data.temperature),
                       humidity_data |-> DequeAppend(hist.humidity_data, data.humidity),
                       pressure_data |-> DequeAppend(hist.pressure_data, data.pressure),
                       gas_data |-> DequeAppend(hist.gas_data, data.gas_resistance),
                       displayed |-> Some(data)]
                 ELSE hist,
                 Tail(queue))

\* update_gui: the queue is drained on the Tk thread; a put that falls into
\* the drain is drained by it or by the next run, as if it came before or after
BmeUpdateGui ==
    /\ prog = "gui_bme688"
    /\ history' = BME688_update_gui(history, data_queue)
    /\ data_queue' = <<>>
    /\ last' = MonCall("update_gui", None)
    /\ UNCHANGED <<wordVars, prog, sensor, sensor_ready, is_monitoring, stop_pending, workers>>

\* on_closing up to its sleep: stop_monitoring() and self.sensor.close()
BmeOnClosing ==
    /\ prog = "gui_bme688"
    /\ prog' = "gui_bme688_closing"
    /\ is_monitoring' = FALSE
    /\ sensor' = BME688_close(sensor)
    /\ last' = MonCall("on_closing", None)
    /\ UNCHANGED <<wordVars, sensor_ready, stop_pending, workers, data_queue, history>>

\* on_closing after the sleep: root.destroy() ends mainloop and the script,
\* and with it the daemon threads
BmeDestroy ==
    /\ prog = "gui_bme688_closing"
    /\ prog' = "exited"
    /\ workers' = <<>>
    /\ last' = MonCall("destroy", None)
    /\ UNCHANGED <<wordVars, sensor, sensor_ready, is_monitoring, stop_pending, data_queue,
                   history>>

BME688MonitorNext ==
    \/ \E w \in 1 .. Len(workers) : BmeDetectConnect(w)
    \/ \E w \in 1 .. Len(workers) : BmeDetectTestRead(w)
    \/ BmeToggleMonitoring
    \/ \E w \in 1 .. Len(workers) : BmeWorkerTest(w)
    \/ \E w \in 1 .. Len(workers) : BmeWorkerRead(w)
    \/ BmeUpdateGui
    \/ BmeOnClosing
    \/ BmeDestroy

SpecBME688Monitor == BME688MonitorInit /\ [][BME688MonitorNext]_vars

(***************************************************************************)
(* Claims checked under SpecBME688Monitor.                                 *)
(***************************************************************************)
\* C11 (as the spec states it): the BME688 sensor_loop stops monitoring after
\* the 10th consecutive failed read: no sensor_loop thread starts another read
\* with ten consecutive failed reads behind it.  The code does not have it.
BmeLoopStopsAfterTenFailures ==
    \A w \in 1 .. Len(workers) :
        workers[w].pc = "read" => workers[w].misses < 10

(***************************************************************************)
(* Claims about sensor_loop of gui_sht40.py, checked under SpecSHT40.      *)
(***************************************************************************)
\* C12 (as the spec states it): a reconnect cycle is attempted exactly when the
\* consecutive-failure count reaches 3.  gui_sht40.py attempts it again at 4,
\* 5, ... when the reconnect raised.
ReconnectExactlyAtThree ==
    last.op = "sensor_loop" => (last.reset <=> last.failed = 3)

\* C12 (amended): a pass of the loop attempts the reconnect cycle exactly when
\* its failure count after the read is 3 or more; a reconnect that went
\* through zeroes the count and one that raised leaves it, so that the next
\* failed pass attempts the reconnect again; the count does not pass 10.
ReconnectAtThreeOrMore ==
    /\ last.op = "sensor_loop" =>
         /\ last.reset <=> last.failed >= 3
         /\ last.reset_raised => last.reset
         /\ last.fail_count = (IF last.reset /\ ~ last.reset_raised THEN 0 ELSE last.failed)
         /\ last.failed <= 10
    /\ \A w \in 1 .. Len(workers) : workers[w].fail_count < 10

\* C12 witness: a pass whose count was already past 3 attempted the reconnect
\* again, and this time it went through
ReconnectRepeated ==
    /\ last.op = "sensor_loop"
    /\ last.failed > 3
    /\ last.reset
    /\ ~ last.reset_raised
    /\ \E w \in 1 .. Len(workers) : workers[w].fail_count = 0 /\ workers[w].misses > 3

\* C13 (as the spec states it): ten consecutive failed read passes always make
\* the loop stop, whether or not the reconnects in between went through: no
\* sensor_loop thread is still in the loop with ten consecutive failed passes
\* behind it.  A reconnect that goes through zeroes fail_count, so the code
\* does not have it.
TenFailuresStopLoop ==
    \A w \in 1 .. Len(workers) :
        workers[w].pc = "loop" => workers[w].misses < 10

(***************************************************************************)
(* SpecBH1750: BH1750Monitor of gui_bh1750.py with its SimpleBH1750        *)
(* driver.  The light on data_queue and in the deque is in tenths of a lux.*)
(***************************************************************************)
\* SimpleBH1750.__init__: no bus handle
NewBH1750 == [bus |-> FALSE]

\* what connect() meets: whether test_i2c_availability passes and whether one
\* of the three probes (power on, reset, measurement) is acknowledged
BH1750ConnectIO == {[available |-> a, probe |-> p] : a, p \in BOOLEAN}

\* SimpleBH1750.connect -> [sensor, raised]: it returns True or closes the bus
\* and re-raises
BH1750_connect(s, cio) ==
    IF cio.available /\ cio.probe
    THEN [sensor |-> [s EXCEPT !.bus = TRUE], raised |-> FALSE]
    ELSE [sensor |-> [s EXCEPT !.bus = FALSE], raised |-> TRUE]

\* SimpleBH1750.close
BH1750_close(s) == [s EXCEPT !.bus = FALSE]

\* SimpleBH1750.read_light -> [raised, ret, nreads, frame]: read_light_safe
\* raises without a bus and when every method failed, else it returns the lux
BH1750_read_light(s, io) ==
    LET r == IF s.bus THEN read_light_safe(io).ret ELSE None
    IN  [raised |-> r = None, ret |-> r, nreads |-> IF s.bus THEN 1 ELSE 0, frame |-> io[1]]

\* what the four methods of one read_light meet: the first answers 333.3 lux,
\* the first fails and the second answers 8.3 lux, all four fail
BhScripts ==
    {<<Read(<<1, 144>>), IOError, IOError, IOError>>,
     <<IOError, Read(<<0, 10>>), IOError, IOError>>,
     <<IOError, IOError, IOError, IOError>>}

BH1750Init ==
    /\ word = <<0, 0>>
    /\ res = Idle
    /\ prog = "gui_bh1750"
    /\ sensor = NewBH1750
    /\ sensor_ready = FALSE
    /\ is_monitoring = FALSE
    /\ stop_pending = 0
    /\ workers = <<>>
    /\ data_queue = <<>>
    /\ history = <<>>
    /\ last = NoCall

\* the test of background_sensor_detection and try_find_sensor over the bus /
\* address pairs: connect, read_light, close; an exception moves on to the
\* next pair -> [found, rd]
BH1750_find_sensor(cio, io) ==
    LET c == BH1750_connect(NewBH1750, cio)
        rd == BH1750_read_light(c.sensor, io)
    IN  IF c.raised \/ rd.raised THEN [found |-> FALSE, rd |-> NoRead]
        ELSE [found |-> TRUE, rd |-> [ret |-> rd.ret, nreads |-> rd.nreads, frame |-> rd.frame]]

BH1750DetectSensor ==
    /\ prog = "gui_bh1750"
    /\ ~ sensor_ready
    /\ \E cio \in BH1750ConnectIO, io \in BhScripts :
         LET find == BH1750_find_sensor(cio, io)
         IN  /\ sensor_ready' = find.found
             /\ sensor' = IF find.found THEN NewBH1750 ELSE sensor
             /\ last' = Call("background_sensor_detection", find.rd, FALSE, FALSE)
    /\ UNCHANGED <<wordVars, prog, is_monitoring, stop_pending, workers, data_queue, history>>

\* toggle_monitoring: try_find_sensor first when no sensor is ready, then
\* start_monitoring (flag set, a sensor_loop thread started) or stop_monitoring
BH1750ToggleMonitoring ==
    /\ prog = "gui_bh1750"
    /\ \E cio \in IF sensor_ready THEN {[available |-> FALSE, probe |-> FALSE]}
                   ELSE BH1750ConnectIO,
          io \in IF sensor_ready THEN {<<IOError, IOError, IOError, IOError>>} ELSE BhScripts :
         LET find == BH1750_find_sensor(cio, io)
             ready == sensor_ready \/ find.found
         IN  /\ sensor_ready' = ready
             /\ sensor' = IF ~ sensor_ready /\ find.found THEN NewBH1750 ELSE sensor
             /\ IF ~ ready
                THEN UNCHANGED <<is_monitoring, workers>>
                ELSE IF ~ is_monitoring
                THEN /\ Len(workers) < MaxLoops
                     /\ is_monitoring' = TRUE
                     /\ workers' = Append(workers, [pc |-> "connect", fail_count |-> 0,
                                                  misses |-> 0])
                ELSE /\ is_monitoring' = FALSE
                     /\ UNCHANGED workers
             /\ last' = IF sensor_ready THEN Call("toggle_monitoring", NoRead, FALSE, FALSE)
                        ELSE Call("try_find_sensor", find.rd, FALSE, FALSE)
    /\ UNCHANGED <<wordVars, prog, stop_pending, data_queue, history>>

\* the callback queued by root.after(0, self.stop_monitoring)
BH1750ScheduledStop ==
    /\ prog = "gui_bh1750"
    /\ stop_pending > 0
    /\ stop_pending' = stop_pending - 1
    /\ is_monitoring' = FALSE
    /\ last' = Call("stop_monitoring", NoRead, FALSE, FALSE)
    /\ UNCHANGED <<wordVars, prog, sensor, sensor_ready, workers, data_queue, history>>

\* sensor_loop up to the while: self.sensor.connect(); when it raises the
\* outer except closes the sensor and the thread ends, the run flag left set
BH1750WorkerConnect(w) ==
    /\ prog = "gui_bh1750"
    /\ workers[w].pc = "connect"
    /\ \E cio \in BH1750ConnectIO :
         LET c == BH1750_connect(sensor, cio)
         IN  /\ sensor' = c.sensor
             /\ workers' = IF c.raised THEN RemoveAt(workers, w)
                           ELSE [workers EXCEPT ![w].pc = "loop"]
             /\ last' = Call("sensor_loop_connect", NoRead, c.raised, FALSE)
    /\ UNCHANGED <<wordVars, prog, sensor_ready, is_monitoring, stop_pending, data_queue, history>>

\* mutant: the stop waits for ten failures, as the comment says it once did
BH1750_stop_due_ten(fail_count) == fail_count >= 10

\* "if fail_count >= 5" of sensor_loop
BH1750_stop_due(fail_count) == fail_count >= 5

\* mutant: the loop does not test the flag (while True)
BH1750_loop_condition_true(flag) == TRUE

\* "while self.is_monitoring" of sensor_loop
BH1750_loop_condition(flag) == flag

\* one pass of "while self.is_monitoring": read_light, the put or the count of
\* the failure (a raise counts like None), the stop at 5 with the close after
\* the break; or, with the flag clear, the exit and self.sensor.close()
BH1750WorkerIteration(w) ==
    /\ prog = "gui_bh1750"
    /\ workers[w].pc = "loop"
    /\ IF ~ BH1750_loop_condition(is_monitoring)
       THEN /\ sensor' = BH1750_close(sensor)
            /\ workers' = RemoveAt(workers, w)
            /\ last' = Call("sensor_loop_exit", NoRead, FALSE, FALSE)
            /\ UNCHANGED <<stop_pending, data_queue>>
       ELSE \E io \in BhScripts :
              LET rd == BH1750_read_light(sensor, io)
                  got == rd.ret # None
                  fail_count == IF got THEN 0 ELSE workers[w].fail_count + 1
                  misses == IF got THEN 0 ELSE Min(workers[w].misses + 1, MaxMisses)
                  stop == BH1750_stop_due(fail_count)
              IN  /\ got => Len(data_queue) < MaxQueue
                  /\ stop => stop_pending < MaxPending
                  /\ fail_count <= MaxMisses
                  /\ data_queue' = IF got THEN Append(data_queue, Val(rd.ret)) ELSE data_queue
                  /\ sensor' = IF stop THEN BH1750_close(sensor) ELSE sensor
                  /\ stop_pending' = IF stop THEN stop_pending + 1 ELSE stop_pending
                  /\ workers' = IF stop THEN RemoveAt(workers, w)
                                ELSE [workers EXCEPT ![w].fail_count = fail_count,
                                                     ![w].misses = misses]
                  /\ last' = LoopCall(rd, got, fail_count, FALSE, FALSE, fail_count)
    /\ UNCHANGED <<wordVars, prog, sensor_ready, is_monitoring, history>>

\* update_gui: drain data_queue into the light_data deque
BH1750UpdateGui ==
    /\ prog = "gui_bh1750"
    /\ history' = TakeLast(history \o data_queue, MaxPoints)
    /\ data_queue' = <<>>
    /\ last' = Call("update_gui", NoRead, FALSE, FALSE)
    /\ UNCHANGED <<wordVars, prog, sensor, sensor_ready, is_monitoring, stop_pending, workers>>

BH1750Next ==
    \/ BH1750DetectSensor
    \/ BH1750ToggleMonitoring
    \/ BH1750ScheduledStop
    \/ \E w \in 1 .. Len(workers) : BH1750WorkerConnect(w)
    \/ \E w \in 1 .. Len(workers) : BH1750WorkerIteration(w)
    \/ BH1750UpdateGui

SpecBH1750 == BH1750Init /\ [][BH1750Next]_vars

(***************************************************************************)
(* Claims checked under SpecBH1750.                                        *)
(***************************************************************************)
\* C14: a pass of the BH1750 sensor_loop schedules stop_monitoring, leaves the
\* loop and closes the sensor exactly when it is the fifth consecutive failed
\* pass; a pass that put a sample has the count at 0; the count of a thread in
\* the loop is its number of consecutive failed passes and stays below 5; no
\* pass attempts a reconnect.
BH1750StopsAtFiveFailures ==
    [][last'.op = "sensor_loop" =>
         /\ last'.failed <= 5
         /\ last'.enq => last'.failed = 0
         /\ ~ last'.reset
         /\ IF last'.failed = 5
            THEN /\ stop_pending' = stop_pending + 1
                 /\ Len(workers') = Len(workers) - 1
                 /\ ~ sensor'.bus
            ELSE /\ stop_pending' = stop_pending
                 /\ Len(workers') = Len(workers)
                 /\ sensor' = sensor
         /\ \A w \in 1 .. Len(workers') :
              /\ workers'[w].fail_count = workers'[w].misses
              /\ workers'[w].fail_count < 5]_vars

\* C14 witness: the fifth consecutive failed pass has ended the thread with the
\* stop callback queued and the sensor closed
BH1750StoppedAfterFive ==
    /\ last.op = "sensor_loop"
    /\ last.failed = 5
    /\ stop_pending = 1
    /\ workers = <<>>
    /\ is_monitoring
    /\ ~ sensor.bus

\* C15 (as the spec states it): is_monitoring is never left true with no live
\* sensor_loop thread: while the flag is set a thread is alive or the
\* stop_monitoring callback is queued.  A connect() that raises at the start
\* of sensor_loop ends the thread without queueing the callback.
MonitoringHasWorker ==
    is_monitoring => (workers # <<>> \/ stop_pending > 0)

(***************************************************************************)
(* Claims about SDP810Monitor, checked under SpecSDP810.                   *)
(***************************************************************************)
\* C16 (as the spec states it): at most one sensor_loop thread is inside the
\* sampling loop at any time, whatever the sequence of start / stop toggles.
\* start_monitoring starts a thread without waiting for the previous one, and
\* setting the flag again keeps the previous one in its loop.
AtMostOneSamplingWorker ==
    Cardinality({w \in 1 .. Len(workers) : workers[w].pc = "loop"}) <= 1

(***************************************************************************)
(* Claims about the threads of BME688MonitorGUI, under SpecBME688Monitor.  *)
(***************************************************************************)
\* C17 (as the spec states it): while a sensor_loop thread runs on the sensor
\* no other thread uses or closes its bus handle: no read of the loop runs on
\* a handle on_closing has closed, and no read cycle of the loop is under way
\* while the detection thread is in its own reads.  Nothing in the code orders
\* these threads.
ExclusiveBusUse ==
    /\ ~ (last.op = "sensor_loop_read" /\ sensor.bus = "closed")
    /\ ~ \E w, d \in 1 .. Len(workers) :
           workers[w].pc = "read" /\ workers[d].pc = "stabilize"

\* C18: every sample put on data_queue is taken off by update_gui exactly once
\* and in the order of the puts: only update_gui removes from the queue or
\* touches the deque; a run of it leaves the queue empty and appends what the
\* queue held, oldest first, to the deque (which keeps its last max_points);
\* a run that finds the queue empty changes nothing; every other step leaves
\* the queue alone or, being a loop pass that got a sample, appends that one
\* sample at its tail.
SamplesDrainedOnceInOrder ==
    [][IF last'.op = "update_gui"
       THEN /\ data_queue' = <<>>
            /\ history' = TakeLast(history \o data_queue, MaxPoints)
            /\ data_queue = <<>> => history' = history
       ELSE /\ history' = history
            /\ IF last'.op = "sensor_loop" /\ last'.enq
               THEN data_queue' = Append(data_queue, Val(last'.ret))
               ELSE data_queue' = data_queue]_vars

\* C18 witness: update_gui has drained two different samples into the deque in
\* the order the loop put them (+5 Pa from the first script, -1 Pa after it)
TwoSamplesDrainedInOrder ==
    /\ last.op = "update_gui"
    /\ data_queue = <<>>
    /\ Len(history) = 2
    /\ history[1] > history[2]

\* C19 (as the spec states it): the samples put and not yet drained never
\* exceed a fixed capacity.  data_queue is queue.Queue() without a maxsize and
\* put() never blocks: the only limit in this model is MaxQueue, the bound of
\* the exploration, and the queue fills up to it while update_gui does not run.
QueueBelowCapacity ==
    Len(data_queue) < MaxQueue

(***************************************************************************)
(* SpecBME688Gui: update_gui of BME688MonitorGUI applied to a queue.  The  *)
(* queue holds up to MaxQueue samples that lie on, next to and far from    *)
(* the six bounds of the plausibility test, the deques are empty or hold   *)
(* one sample.                                                             *)
(***************************************************************************)
\* 25 C / 50 % / 1000 hPa, and that sample with one value moved to a bound,
\* next to it, or beyond it
BmeGuiSamples ==
    LET base == [timestamp |-> "now", temperature |-> 2500, humidity |-> 50 * HumUnit,
                 pressure |-> 100000, gas_resistance |-> 0]
    IN  {base}
        \cup {[base EXCEPT !.temperature = v] : v \in {-436, 0, 1, 9999, 10000}}
        \cup {[base EXCEPT !.humidity = v] : v \in {0, 1, 100 * HumUnit - 1, 100 * HumUnit}}
        \cup {[base EXCEPT !.pressure = v] : v \in {79999, 80000, 80001, 119999, 120000}}

BmeGuiQueues ==
    {<<>>} \cup {<<a>> : a \in BmeGuiSamples} \cup {<<a, b>> : a, b \in BmeGuiSamples}

BME688GuiInit ==
    /\ word = <<0, 0>>
    /\ res = Idle
    /\ prog = "gui_bme688"
    /\ sensor = NewBME688
    /\ sensor_ready = FALSE
    /\ is_monitoring = FALSE
    /\ stop_pending = 0
    /\ workers = <<>>
    /\ data_queue \in BmeGuiQueues
    /\ history \in {NoHistory,
                    BME688_update_gui(NoHistory,
                        <<[timestamp |-> "now", temperature |-> 2100, humidity |-> 40 * HumUnit,
                           pressure |-> 101300, gas_resistance |-> 6250]>>)}
    /\ last = MonCall("none", None)

SpecBME688Gui == BME688GuiInit /\ [][BmeUpdateGui]_vars

(***************************************************************************)
(* Claims checked under SpecBME688Gui.                                     *)
(***************************************************************************)
\* C20: update_gui appends a dequeued sample to the five deques and shows it
\* only if 0 < temperature < 100 C, 0 < humidity < 100 % and 800 < pressure <
\* 1200 hPa; the other samples are dropped with the deques unchanged; every
\* stored temperature, humidity and pressure lies inside these bounds and the
\* five deques have the same length.
OnlyPlausibleSamplesStored ==
    [][LET ok(d) == /\ 0 < d.temperature /\ d.temperature < 10000
                    /\ 0 < d.humidity /\ d.humidity < 102400
                    /\ 80000 < d.pressure /\ d.pressure < 120000
           kept == SelectSeq(data_queue, ok)
           Column(f(_)) == [i \in 1 .. Len(kept) |-> f(kept[i])]
           ts(d) == d.timestamp
           tm(d) == d.temperature
           hm(d) == d.humidity
           pr(d) == d.pressure
           gs(d) == d.gas_resistance
           n == Len(history'.timestamps)
       IN  /\ last'.op = "update_gui"
           /\ data_queue' = <<>>
           /\ history'.timestamps = TakeLast(history.timestamps \o Column(ts), MaxPoints)
           /\ history'.temperature_data
                = TakeLast(history.temperature_data \o Column(tm), MaxPoints)
           /\ history'.humidity_data = TakeLast(history.humidity_data \o Column(hm), MaxPoints)
           /\ history'.pressure_data = TakeLast(history.pressure_data \o Column(pr), MaxPoints)
           /\ history'.gas_data = TakeLast(history.gas_data \o Column(gs), MaxPoints)
           /\ history'.displayed = (IF kept = <<>> THEN history.displayed
                                    ELSE Some(kept[Len(kept)]))
           /\ kept = <<>> => history' = history
           /\ Len(history'.temperature_data) = n
           /\ Len(history'.humidity_data) = n
           /\ Len(history'.pressure_data) = n
           /\ Len(history'.gas_data) = n
           /\ \A i \in 1 .. n :
                /\ 0 < history'.temperature_data[i] /\ history'.temperature_data[i] < 10000
                /\ 0 < history'.humidity_data[i] /\ history'.humidity_data[i] < 102400
                /\ 80000 < history'.pressure_data[i] /\ history'.pressure_data[i] < 120000]_vars

\* C20 witness: update_gui has run and the sample at 99.99 C, just inside the
\* bound, is stored behind the sample the deques held, and shown
HotSampleDroppedWarmKept ==
    /\ last.op = "update_gui"
    /\ data_queue = <<>>
    /\ history.temperature_data = <<2100, 9999>>
    /\ Len(history.timestamps) = 2
    /\ Val(history.displayed).temperature = 9999

(***************************************************************************)
(* FairBH1750: SpecBH1750 with the sensor_loop threads scheduled.  A       *)
(* started thread is a daemon thread of the interpreter: it gets the       *)
(* processor again after each sleep, and its bus calls return or raise, so *)
(* a step of it that stays possible is taken (weak fairness).  The Tk      *)
(* handlers run when the user or a timer asks: no fairness for them.       *)
(***************************************************************************)
FairBH1750 ==
    /\ BH1750Init
    /\ [][BH1750Next]_vars
    /\ WF_vars(\E w \in 1 .. Len(workers) : BH1750WorkerConnect(w))
    /\ WF_vars(\E w \in 1 .. Len(workers) : BH1750WorkerIteration(w))

\* C21: with the flag clear a sensor_loop thread starts no read: its next step
\* in the loop is the exit, which ends the thread and closes the sensor; and a
\* clear flag leads to no thread being alive, unless monitoring is started
\* again.
WorkerLeavesAfterStop ==
    /\ [][/\ ~ is_monitoring => last'.op # "sensor_loop"
          /\ last'.op = "sensor_loop_exit" =>
               /\ ~ is_monitoring
               /\ Len(workers') = Len(workers) - 1
               /\ ~ sensor'.bus
               /\ data_queue' = data_queue]_vars
    /\ (~ is_monitoring) ~> (workers = <<>> \/ is_monitoring)

\* C21 witness: the thread that was in the loop has seen the flag clear, left
\* and closed the sensor
WorkerGoneAfterStop ==
    /\ last.op = "sensor_loop_exit"
    /\ ~ is_monitoring
    /\ workers = <<>>
    /\ ~ sensor.bus
    /\ sensor_ready

(***************************************************************************)
(* SpecRetry: the three retry routines applied to a driver object that is  *)
(* connected or not, with max_retries drawn from 0 .. MaxRetries.          *)
(*   prog = "gui_sdp810_sensor"  SimpleSDP810.read_pressure_with_retry     *)
(*   prog = "sdp810_sensor"      SDP810Sensor.read_pressure_with_retry     *)
(*   prog = "gui_sht40"          SimpleSHT40.read_with_retry               *)
(***************************************************************************)
MaxRetries == 3

\* last after a retry call: max_retries and ios are the call's inputs, mux
\* what the channel selection met
RetryCall(op, rd, max_retries, ios, mux) ==
    [op |-> op, frame |-> rd.frame, nreads |-> rd.nreads, ret |-> rd.ret,
     raised |-> FALSE, enq |-> FALSE, max_retries |-> max_retries, ios |-> ios,
     mux |-> mux]

\* a script of frame reads, continued with I/O errors up to n attempts
Padded(ios, n) ==
    [k \in 1 .. Max(n, Len(ios)) |-> IF k <= Len(ios) THEN ios[k] ELSE IOError]

\* the driver objects a caller can hold: fresh, opened but not connected,
\* connected
RetrySensors(p) ==
    IF p = "gui_sht40" THEN {NewSHT40, [bus |-> TRUE]}
    ELSE LET mcs == IF p = "sdp810_sensor" THEN {None, Some(2)} ELSE {None}
         IN  {[bus |-> b, is_connected |-> c, mux_channel |-> mc] :
                 b \in BOOLEAN, c \in BOOLEAN, mc \in mcs} \ 
             {[bus |-> FALSE, is_connected |-> TRUE, mux_channel |-> mc] : mc \in mcs}

RetryInit ==
    /\ word = <<0, 0>>
    /\ res = Idle
    /\ prog \in {"gui_sdp810_sensor", "sdp810_sensor", "gui_sht40"}
    /\ sensor \in RetrySensors(prog)
    /\ sensor_ready = FALSE
    /\ is_monitoring = FALSE
    /\ stop_pending = 0
    /\ workers = <<>>
    /\ data_queue = <<>>
    /\ history = <<>>
    /\ last = NoCall

RetrySimpleSDP810 ==
    /\ prog = "gui_sdp810_sensor"
    /\ \E n \in 0 .. MaxRetries, scr \in SdpScripts :
         LET ios == Padded(scr, n) IN
         last' = RetryCall("read_pressure_with_retry",
                           SimpleSDP810_read_pressure_with_retry(sensor, ios, n),
                           n, ios, NoMux)
    /\ UNCHANGED <<wordVars, prog, sensor, monitorState>>

RetrySDP810Sensor ==
    /\ prog = "sdp810_sensor"
    /\ \E n \in 0 .. MaxRetries, scr \in SdpScripts, mio \in MuxIO(2) :
         LET ios == Padded(scr, n) IN
         last' = RetryCall("read_pressure_with_retry",
                           SDP810Sensor_read_pressure_with_retry(sensor, mio, ios, n),
                           n, ios, mio)
    /\ UNCHANGED <<wordVars, prog, sensor, monitorState>>

RetrySHT40 ==
    /\ prog = "gui_sht40"
    /\ \E n \in 0 .. MaxRetries, scr \in ShtScripts :
         LET ios == Padded(scr, n) IN
         last' = RetryCall("read_with_retry", SHT40_read_with_retry(sensor, ios, n),
                           n, ios, NoMux)
    /\ UNCHANGED <<wordVars, prog, sensor, monitorState>>

RetryNext == RetrySimpleSDP810 \/ RetrySDP810Sensor \/ RetrySHT40

SpecRetry == RetryInit /\ [][RetryNext]_vars

(***************************************************************************)
(* Claims checked under SpecRetry.                                         *)
(***************************************************************************)
\* the decoded frame of attempt k is a pressure with a matching CRC
SdpDecoded(ios, k) ==
    IF prog = "sdp810_sensor" THEN SDP810Sensor_read_pressure_data(ios[k])
    ELSE SimpleSDP810_read_pressure_data(ios[k])

SdpValidAt(ios, k) == SdpDecoded(ios, k)[1] # None /\ SdpDecoded(ios, k)[2]

\* the attempts of a call with n retries that deliver a valid frame
SdpValidAttempts(ios, n) == {k \in 1 .. n : SdpValidAt(ios, k)}

ShtValidAttempts(ios, n) == {k \in 1 .. n : ~ ios[k].err /\ Len(ios[k].data) >= 6}

First(S) == CHOOSE k \in S : \A j \in S : k <= j

\* C22: read_pressure_with_retry(max_retries = n) of both SDP810 drivers makes
\* at most n frame reads, returns the pressure of the first CRC-valid frame
\* (reading no further), returns None when all n attempts fail, and returns
\* None with no frame read when the sensor is not connected; SHT40
\* read_with_retry makes at most n attempts, returns the first measurement it
\* gets, and returns None, never raising, when all n attempts fail.
RetryBoundedFirstValid ==
    /\ last.op = "read_pressure_with_retry" =>
         LET n == last.max_retries
             V == SdpValidAttempts(last.ios, n)
             selected == sensor.mux_channel = None \/ select_mux_channel(sensor, last.mux)
         IN  /\ last.nreads <= n
             /\ ~ last.raised
             /\ ~ sensor.is_connected => last.ret = None /\ last.nreads = 0
             /\ sensor.is_connected /\ selected /\ V # {} =>
                  /\ last.nreads = First(V)
                  /\ last.ret = SdpDecoded(last.ios, First(V))[1]
             /\ sensor.is_connected /\ selected /\ V = {} =>
                  last.ret = None /\ last.nreads = n
             /\ sensor.is_connected /\ ~ selected => last.ret = None /\ last.nreads = 0
    /\ last.op = "read_with_retry" =>
         LET n == last.max_retries
             V == IF sensor.bus THEN ShtValidAttempts(last.ios, n) ELSE {}
         IN  /\ last.nreads <= n
             /\ ~ last.raised
             /\ V # {} =>
                  /\ last.nreads = First(V)
                  /\ last.ret = SHT40_read_temperature_humidity(sensor, last.ios[First(V)]).ret
                  /\ last.ret # None
             /\ V = {} => last.ret = None /\ last.nreads = n

\* C22 witness: a call with three retries meets two failing frames and
\* returns the third frame's pressure
RetryThirdAttemptReturned ==
    /\ last.op = "read_pressure_with_retry"
    /\ sensor.is_connected
    /\ last.max_retries = 3
    /\ last.nreads = 3
    /\ last.ret # None
    /\ ~ SdpValidAt(last.ios, 1) /\ ~ SdpValidAt(last.ios, 2)

(***************************************************************************)
(* Claims about BME688Sensor.connect, checked under SpecBME688Monitor      *)
(* (the connect of background_sensor_detection) and SpecBME688.            *)
(***************************************************************************)
\* the positions of a transfer in the trace of a connect, whether it was
\* made and succeeded, whether it was made and failed
StepAt(st, name) == {i \in DOMAIN st : st[i].step = name}
StepDone(st, name) == \E i \in DOMAIN st : st[i].step = name /\ st[i].ok
StepFailed(st, name) == \E i \in DOMAIN st : st[i].step = name /\ ~ st[i].ok
Before(st, a, b) == \A i \in StepAt(st, a), j \in StepAt(st, b) : i < j

\* C23: the connect of the detection thread makes the chip-ID check, the soft
\* reset, the calibration load and the configuration in that order, each only
\* after the one before succeeded; it returns True only if the chip ID was read
\* and matched and every calibration read succeeded; when a calibration read
\* fails it returns False (no exception leaves it) and the monitor does not
\* mark the sensor ready; a ready sensor has its calibration loaded.
ConnectCalibratesBeforeReady ==
    /\ (last.op = "background_sensor_detection" /\ last.calls # <<>>) =>
         LET st == last.calls
         IN  /\ Before(st, "chip_id", "reset")
             /\ Before(st, "reset", "calibration")
             /\ Before(st, "calibration", "cal_other")
             /\ Before(st, "cal_other", "configure")
             /\ StepAt(st, "reset") # {} => StepDone(st, "chip_id")
             /\ StepAt(st, "calibration") # {} => StepDone(st, "reset")
             /\ StepAt(st, "configure") # {} =>
                  StepDone(st, "calibration") /\ StepDone(st, "cal_other")
             /\ last.ret = Some(TRUE) =>
                  /\ StepDone(st, "chip_id")
                  /\ StepDone(st, "calibration")
                  /\ StepDone(st, "cal_other")
             /\ (StepFailed(st, "calibration") \/ StepFailed(st, "cal_other")) =>
                  /\ last.ret = Some(FALSE)
                  /\ ~ sensor_ready
             /\ last.ret \in {Some(TRUE), Some(FALSE)}
    /\ sensor_ready => sensor.calibrated

\* C23 witness: the detection thread's connect passed the chip-ID check and
\* the reset, a read of the heater calibration registers failed, and the
\* sensor is not ready
CalibrationFailureLeavesNotReady ==
    /\ last.op = "background_sensor_detection"
    /\ StepDone(last.calls, "chip_id")
    /\ StepDone(last.calls, "reset")
    /\ StepFailed(last.calls, "cal_other")
    /\ last.ret = Some(FALSE)
    /\ ~ sensor_ready

\* C24: the BME688 reaches the ready state only with its gas heater
\* configured: when the connect of the detection thread returns True and the
\* sensor is marked ready, every configuration write succeeded, the
\* heater-resistance, heater-duration, run-gas and heater-control writes of
\* setup_gas_sensor included.
ReadyOnlyWithHeaterConfigured ==
    (last.op = "background_sensor_detection" /\ (sensor_ready \/ last.ret = Some(TRUE))) =>
        /\ StepDone(last.calls, "configure")
        /\ \A g \in GasSteps : StepDone(last.calls, g)

(***************************************************************************)
(* SpecGasWait: the heater-duration encoding of setup_gas_sensor applied   *)
(* to every duration_ms of 0 .. MaxDuration (the script itself encodes     *)
(* 150 ms).  res holds the duration and, after the call, the encoding.     *)
(***************************************************************************)
MaxDuration == 4200

\* mutant: the loop divides while duration_ms > 0x7F
RECURSIVE gas_wait_loop_wide(_, _)
gas_wait_loop_wide(duration_ms, factor) ==
    IF duration_ms > 127 THEN gas_wait_loop_wide(duration_ms \div 4, factor + 1)
    ELSE [duration_ms |-> duration_ms, factor |-> factor]

\* while duration_ms > 0x3F: duration_ms = duration_ms // 4; factor += 1
RECURSIVE gas_wait_loop(_, _)
gas_wait_loop(duration_ms, factor) ==
    IF duration_ms > 63 THEN gas_wait_loop(duration_ms \div 4, factor + 1)
    ELSE [duration_ms |-> duration_ms, factor |-> factor]

\* the durval setup_gas_sensor writes to GAS_WAIT0 -> [durval, mantissa, factor]
gas_wait_durval(duration_ms) ==
    IF duration_ms >= 4032
    THEN [durval |-> 255, mantissa |-> duration_ms, factor |-> 0]
    ELSE LET l == gas_wait_loop(duration_ms, 0)
         IN  [durval |-> l.duration_ms + l.factor * 64, mantissa |-> l.duration_ms,
              factor |-> l.factor]

GasWaitInit ==
    /\ word = <<0, 0>>
    /\ res \in {[op |-> "none", duration_ms |-> d] : d \in 0 .. MaxDuration}
    /\ prog = "gui_bme688"
    /\ sensor = NewBME688
    /\ sensor_ready = FALSE
    /\ is_monitoring = FALSE
    /\ stop_pending = 0
    /\ workers = <<>>
    /\ data_queue = <<>>
    /\ history = <<>>
    /\ last = NoCall

GasWaitEncode ==
    /\ res.op = "none"
    /\ res' = [op |-> "gas_wait", duration_ms |-> res.duration_ms,
               enc |-> gas_wait_durval(res.duration_ms)]
    /\ UNCHANGED <<word, monVars>>

SpecGasWait == GasWaitInit /\ [][GasWaitEncode]_vars

\* C25: for a duration d >= 0 ms the byte written to GAS_WAIT0 is 0xFF when
\* d >= 0xFC0; otherwise the divide-by-4 loop ends after f <= 3 divisions with
\* a mantissa m <= 63, the byte is m + 64 f, lies in 0 .. 254, and
\* m * 4^f <= d < (m + 1) * 4^f; d = 150 is encoded as 101.
GasWaitEncoding ==
    res.op = "gas_wait" =>
        LET d == res.duration_ms
            e == res.enc
            f == e.durval \div 64
            m == e.durval % 64
        IN  /\ d >= 4032 => e.durval = 255
            /\ d < 4032 =>
                 /\ e.factor <= 3
                 /\ e.mantissa <= 63
                 /\ e.factor = f /\ e.mantissa = m
                 /\ e.durval = e.mantissa + 64 * e.factor
                 /\ e.durval \in 0 .. 254
                 /\ m * Pow2(2 * f) <= d
                 /\ d < (m + 1) * Pow2(2 * f)
            /\ d = 150 => e.durval = 101

\* C25 witness: 150 ms is encoded after one division as 37 + 64, and 4031 ms
\* needs three divisions
GasWait150Is101 ==
    /\ res.op = "gas_wait"
    /\ res.duration_ms = 150
    /\ res.enc = [durval |-> 101, mantissa |-> 37, factor |-> 1]
    /\ gas_wait_durval(4031).factor = 3

(***************************************************************************)
(* SpecSHT40Terminal: main() of the terminal scripts sht40.py and          *)
(* sht40_sensor.py: the sensor is opened and reset, then the while True    *)
(* loop measures every 30 s until a reset fails or Ctrl+C arrives.         *)
(* workers holds the one main thread: pc, error_count, and the ghost       *)
(* misses (consecutive failed measurements, capped at MaxMisses).          *)
(***************************************************************************)
\* last after one pass of the while True loop: before is error_count at the
\* head of the pass, failed after the measurement, resets the number of
\* sensor.reset() calls of the pass, reset_ok what reset() returned
MainLoopCall(rd, before, failed, resets, reset_ok, error_count, misses) ==
    [op |-> "main_loop", frame |-> rd.frame, nreads |-> rd.nreads, ret |-> rd.ret,
     raised |-> FALSE, enq |-> FALSE, before |-> before, failed |-> failed,
     resets |-> resets, reset_ok |-> reset_ok, error_count |-> error_count,
     misses |-> misses]

SHT40TerminalInit ==
    /\ word = <<0, 0>>
    /\ res = Idle
    /\ prog \in {"sht40", "sht40_sensor"}
    /\ sensor = NewSHT40
    /\ sensor_ready = FALSE
    /\ is_monitoring = FALSE
    /\ stop_pending = 0
    /\ workers = <<[pc |-> "start", error_count |-> 0, misses |-> 0]>>
    /\ data_queue = <<>>
    /\ history = <<>>
    /\ last = NoCall

\* main() up to the loop: sht40.py calls sensor.connect(), which opens the
\* bus and sends the soft reset or raises; sht40_sensor.py opens the bus in
\* SHT40.__init__ and returns when sensor.reset() is False.  Either way the
\* loop is entered with the bus open, or main ends through finally: close()
TerminalStart ==
    /\ workers[1].pc = "start"
    /\ \E cio \in SHT40ConnectIO :
         LET c == SHT40_connect(sensor, cio)
         IN  /\ workers' = [workers EXCEPT ![1].pc = IF c.raised THEN "done" ELSE "loop"]
             /\ sensor' = IF c.raised THEN SHT40_close(c.sensor) ELSE c.sensor
             /\ last' = Call("connect", NoRead, FALSE, FALSE)
    /\ UNCHANGED <<wordVars, prog, sensor_ready, is_monitoring, stop_pending,
                   data_queue, history>>

\* mutant: the reset threshold of the earlier version of the scripts
error_count_reset_due_five(error_count) == error_count >= 5

\* if error_count >= 3
error_count_reset_due(error_count) == error_count >= 3

\* one pass of while True: read_with_retry / measure_with_retry, the count,
\* the reset branch with its break, which leads to finally: sensor.close();
\* sht40.py also appends the sample to its temperature_data / humidity_data
\* deques (history), sht40_sensor.py only prints it
TerminalIteration ==
    /\ workers[1].pc = "loop"
    /\ \E ios \in ShtScripts, reset_ok \in BOOLEAN :
         LET rd == SHT40_read_with_retry(sensor, ios, 3)
             got == rd.ret # None
             before == workers[1].error_count
             failed == IF got THEN 0 ELSE before + 1
             due == ~ got /\ error_count_reset_due(failed)
             ok == due /\ reset_ok
             break == due /\ ~ reset_ok
             error_count == IF ok THEN 0 ELSE failed
             misses == IF got THEN 0 ELSE Min(workers[1].misses + 1, MaxMisses)
         IN  /\ workers' = [workers EXCEPT ![1].pc = IF break THEN "done" ELSE "loop",
                                           ![1].error_count = error_count,
                                           ![1].misses = misses]
             /\ sensor' = IF break THEN SHT40_close(sensor) ELSE sensor
             /\ history' = IF got /\ prog = "sht40" THEN DequeAppend(history, Val(rd.ret))
                           ELSE history
             /\ last' = MainLoopCall(rd, before, failed, IF due THEN 1 ELSE 0, ok,
                                     error_count, misses)
    /\ UNCHANGED <<wordVars, prog, sensor_ready, is_monitoring, stop_pending, data_queue>>

\* Ctrl+C during the sleep: except KeyboardInterrupt, then finally: close()
TerminalInterrupt ==
    /\ workers[1].pc = "loop"
    /\ workers' = [workers EXCEPT ![1].pc = "done"]
    /\ sensor' = SHT40_close(sensor)
    /\ last' = Call("KeyboardInterrupt", NoRead, TRUE, FALSE)
    /\ UNCHANGED <<wordVars, prog, sensor_ready, is_monitoring, stop_pending,
                   data_queue, history>>

SHT40TerminalNext == TerminalStart \/ TerminalIteration \/ TerminalInterrupt

SpecSHT40Terminal == SHT40TerminalInit /\ [][SHT40TerminalNext]_vars

\* C26: in the terminal SHT40 loops the pass that makes the third consecutive
\* failed measurement attempts exactly one soft reset, and no other pass
\* attempts one; a successful reset sets the error count to 0 and the loop goes
\* on sampling, a failed reset ends the loop (and the bus is closed); a
\* successful measurement sets the count to 0; the count never exceeds 3.
ResetOnThirdFailure ==
    /\ workers[1].error_count \in 0 .. 3
    /\ last.op = "main_loop" =>
         /\ last.error_count = workers[1].error_count
         /\ last.ret # None =>
              /\ last.error_count = 0
              /\ last.resets = 0
              /\ workers[1].pc = "loop"
         /\ last.ret = None =>
              /\ last.failed = last.before + 1
              /\ last.resets = IF last.failed = 3 THEN 1 ELSE 0
              /\ last.misses = 3 => last.resets = 1
              /\ (last.resets = 1 /\ last.reset_ok) =>
                   /\ last.error_count = 0
                   /\ workers[1].pc = "loop"
                   /\ sensor.bus
              /\ (last.resets = 1 /\ ~ last.reset_ok) =>
                   /\ workers[1].pc = "done"
                   /\ ~ sensor.bus
              /\ last.resets = 0 =>
                   /\ last.error_count = last.failed
                   /\ workers[1].pc = "loop"

\* C26 witness: the third consecutive failed measurement, one reset, which
\* fails, and the loop has ended with the bus closed
ThirdFailureResetFailedLoopEnded ==
    /\ last.op = "main_loop"
    /\ last.misses = 3
    /\ last.resets = 1
    /\ ~ last.reset_ok
    /\ workers[1].pc = "done"
    /\ ~ sensor.bus

(***************************************************************************)
(* SpecSPS30: one pass of the data loop of gui_sps30.py sensor_loop on     *)
(* every reading of SpsReadings.  A Python value is a record tagged with   *)
(* its type, its number v (None: it has none) and, for a tuple, its        *)
(* items; numbers are tenths of a ug/m3.  res holds what                   *)
(* read_measured_value delivers and, after the pass, what the pass did.    *)
(***************************************************************************)
PyInt(n) == [t |-> "int", v |-> Some(n), items |-> <<>>]
PyBigInt == [t |-> "int", v |-> None, items |-> <<>>]       \* an int too large for a float
PyFloat(n) == [t |-> "float", v |-> Some(n), items |-> <<>>]
PyStr(parsed) == [t |-> "str", v |-> parsed, items |-> <<>>]\* parsed: the number it spells, or None
PyTuple(items) == [t |-> "tuple", v |-> None, items |-> items]
PyNone == [t |-> "None", v |-> None, items |-> <<>>]
\* an object with __float__ (v: what it returns, None: it raises) or without
PyObject(has_float, v) ==
    [t |-> IF has_float THEN "floatable" ELSE "object", v |-> v, items |-> <<>>]

\* Python's float(x) -> [raised, v]
float(x) ==
    IF x.t \in {"int", "float", "str", "floatable"} /\ x.v # None
    THEN [raised |-> FALSE, v |-> Val(x.v)]
    ELSE [raised |-> TRUE, v |-> 0]

\* safe_float of sensor_loop
safe_float(value) ==
    LET r == IF value.t \in {"int", "float"} THEN float(value)
             ELSE IF value.t = "str" THEN float(value)
             ELSE IF value.t = "tuple" /\ Len(value.items) > 0 THEN float(value.items[1])
             ELSE IF value.t = "floatable" THEN float(value)
             ELSE [raised |-> FALSE, v |-> 0]
    IN  IF r.raised THEN 0 ELSE r.v

\* mutant: the len(data) >= 4 branch is missing
SPS30_measurement_three(data) ==
    [timestamp |-> "now", pm1 |-> safe_float(data[1]), pm25 |-> safe_float(data[2]),
     pm4 |-> 0, pm10 |-> safe_float(data[3])]

\* the measurement dict of a reading of at least 3 values
SPS30_measurement(data) ==
    LET pm1_val == safe_float(data[1])
        pm25_val == safe_float(data[2])
        pm10_val == safe_float(data[3])
        measurement == [timestamp |-> "now", pm1 |-> pm1_val, pm25 |-> pm25_val,
                        pm4 |-> 0, pm10 |-> pm10_val]
    IN  IF Len(data) >= 4
        THEN [measurement EXCEPT !.pm4 = safe_float(data[3]), !.pm10 = safe_float(data[4])]
        ELSE measurement

\* the values an element of a reading can be
SpsScalars ==
    {PyInt(12), PyFloat(57), PyStr(Some(35)), PyStr(None), PyNone, PyBigInt,
     PyObject(TRUE, Some(42)), PyObject(TRUE, None), PyObject(FALSE, None)}

SpsValues ==
    SpsScalars \cup {PyTuple(<<>>), PyTuple(<<PyFloat(80), PyInt(1)>>),
                     PyTuple(<<PyStr(None)>>), PyTuple(<<PyNone>>)}

\* what read_measured_value delivers: it raises, it returns None, or a
\* sequence of 0 to 5 values
SpsReadings ==
    {IOError, [err |-> FALSE, data |-> None]}
    \cup {[err |-> FALSE, data |-> Some(d)] :
            d \in {<<>>, <<PyFloat(57)>>, <<PyFloat(57), PyInt(12)>>,
                   <<PyFloat(11), PyFloat(22), PyFloat(33), PyFloat(44), PyFloat(55)>>}
                  \cup {<<a, PyFloat(22), c>> : a, c \in SpsValues}
                  \cup {<<PyFloat(11), b, c, d4>> : b, c, d4 \in SpsValues}}

SPS30Init ==
    /\ word = <<0, 0>>
    /\ res \in {[op |-> "none", rd |-> rd] : rd \in SpsReadings}
    /\ prog = "gui_sps30"
    /\ sensor = [bus |-> TRUE]
    /\ sensor_ready = TRUE
    /\ is_monitoring = TRUE
    /\ stop_pending = 0
    /\ workers = <<[pc |-> "loop"]>>
    /\ data_queue = <<>>
    /\ history = <<>>
    /\ last = NoCall

\* one pass of 'while self.is_monitoring': read_measured_value, the length
\* test, the conversion and the put, or the except clause
SPS30LoopBody ==
    /\ res.op = "none"
    /\ is_monitoring
    /\ LET rd == res.rd
           enq == ~ rd.err /\ rd.data # None /\ Len(Val(rd.data)) >= 3
       IN  /\ data_queue' = IF enq THEN Append(data_queue, SPS30_measurement(Val(rd.data)))
                            ELSE data_queue
           /\ res' = [op |-> "sensor_loop", rd |-> rd, enq |-> enq, raised |-> FALSE]
    /\ UNCHANGED <<word, prog, sensor, sensor_ready, is_monitoring, stop_pending, workers,
                   history, last>>

SpecSPS30 == SPS30Init /\ [][SPS30LoopBody]_vars

\* a value no branch of safe_float converts: None, a string that spells no
\* number, an int beyond the float range, an empty tuple, an object without
\* __float__ or whose __float__ raises; a tuple counts by its first element
Unconvertible(x) ==
    \/ x.t \in {"None", "object"}
    \/ x.t \in {"str", "int", "floatable"} /\ x.v = None
    \/ x.t = "tuple" /\ x.items = <<>>
    \/ /\ x.t = "tuple" /\ x.items # <<>>
       /\ (x.items[1].t \in {"None", "object", "tuple"} \/ x.items[1].v = None)

Number(x) == IF x.t = "tuple" THEN Val(x.items[1].v) ELSE Val(x.v)

Converted(x) == IF Unconvertible(x) THEN 0 ELSE Number(x)

\* C27: safe_float never raises and gives 0.0 for a value it cannot convert
\* (and the number otherwise); a reading of at least 4 values puts one sample
\* with PM1.0, PM2.5, PM4.0, PM10 = data[0..3]; a reading of exactly 3 values
\* puts one sample with PM10 = data[2] and PM4.0 = 0.0; a reading of fewer
\* than 3 values (or none) puts no sample.
SpsSampleMapping ==
    res.op = "sensor_loop" =>
        LET rd == res.rd
            n == IF rd.err \/ rd.data = None THEN 0 ELSE Len(Val(rd.data))
            data == Val(rd.data)
        IN  /\ ~ res.raised
            /\ n < 3 => data_queue = <<>>
            /\ n >= 3 =>
                 /\ Len(data_queue) = 1
                 /\ \A i \in 1 .. n : safe_float(data[i]) = Converted(data[i])
                 /\ data_queue[1].pm1 = Converted(data[1])
                 /\ data_queue[1].pm25 = Converted(data[2])
            /\ n = 3 =>
                 /\ data_queue[1].pm4 = 0
                 /\ data_queue[1].pm10 = Converted(data[3])
            /\ n >= 4 =>
                 /\ data_queue[1].pm4 = Converted(data[3])
                 /\ data_queue[1].pm10 = Converted(data[4])

\* C27 witness: a reading of four values whose second is an unparseable
\* string and whose third is a tuple has been put as one sample
SpsFourValuesWithBadString ==
    /\ res.op = "sensor_loop"
    /\ res.rd.data = Some(<<PyFloat(11), PyStr(None), PyTuple(<<PyFloat(80), PyInt(1)>>),
                            PyFloat(57)>>)
    /\ data_queue = <<[timestamp |-> "now", pm1 |-> 11, pm25 |-> 0, pm4 |-> 80, pm10 |-> 57]>>

(***************************************************************************)
(* Claims about connect() of the SDP810 drivers, checked under SpecSDP810. *)
(***************************************************************************)
\* C28: connect() of SDP810Sensor and of SimpleSDP810 returns True, with
\* is_connected set, only after a test frame whose CRC byte matches; a sensor
\* that delivers only CRC-invalid frames is never reported connected.
ConnectedOnlyAfterCrcValidFrame ==
    (last.op \in {"connect", "sensor_loop_connect"} /\ last.ret = Some(TRUE)) =>
        /\ sensor.is_connected
        /\ CrcValidFrame(last.frame)

(***************************************************************************)
(* SpecMux: the SDP810Sensor API of sdp810_sensor.py behind a TCA9548A     *)
(* channel.  The sensor is constructed with mux_channel None or one of     *)
(* MuxChannels; last keeps, for every call, the multiplexer transfers it   *)
(* made before its frame reads and the number of frame reads.              *)
(***************************************************************************)
MuxChannels == {0, 2, 7}

MuxCall(op, ret, nreads, mux) ==
    [op |-> op, frame |-> IOError, nreads |-> nreads, ret |-> ret, raised |-> FALSE,
     enq |-> FALSE, mux |-> mux]

\* the outcomes of the channel selection of a call on sensor s
MuxOutcomes(s) == IF s.mux_channel = None THEN {NoMux} ELSE MuxIO(Val(s.mux_channel))

MuxInit ==
    /\ word = <<0, 0>>
    /\ res = Idle
    /\ prog = "sdp810_sensor"
    /\ sensor \in {NewSensor(None)} \cup {NewSensor(Some(c)) : c \in MuxChannels}
    /\ sensor_ready = FALSE
    /\ is_monitoring = FALSE
    /\ stop_pending = 0
    /\ workers = <<>>
    /\ data_queue = <<>>
    /\ history = <<>>
    /\ last = NoCall

MuxConnect ==
    /\ \E cio \in ConnectIO(SdpFrames), mio \in MuxOutcomes(sensor) :
         LET c == SDP810Sensor_connect(sensor, cio, mio)
         IN  /\ sensor' = c.sensor
             /\ last' = MuxCall("connect", Some(c.ret), c.nreads, c.mux)
    /\ UNCHANGED <<wordVars, prog, monitorState>>

MuxReadPressure ==
    /\ \E io \in SdpFrames, mio \in MuxOutcomes(sensor) :
         LET r == SDP810Sensor_read_pressure(sensor, mio, io)
         IN  last' = MuxCall("read_pressure", r.ret, r.nreads, r.mux)
    /\ UNCHANGED <<wordVars, prog, sensor, monitorState>>

MuxReadPressureWithCrc ==
    /\ \E io \in SdpFrames, mio \in MuxOutcomes(sensor) :
         LET r == SDP810Sensor_read_pressure_with_crc(sensor, mio, io)
         IN  last' = MuxCall("read_pressure_with_crc", r.ret, r.nreads, r.mux)
    /\ UNCHANGED <<wordVars, prog, sensor, monitorState>>

MuxReadPressureWithRetry ==
    /\ \E ios \in SdpScripts, mio \in MuxOutcomes(sensor) :
         LET r == SDP810Sensor_read_pressure_with_retry(sensor, mio, ios, 3)
         IN  last' = MuxCall("read_pressure_with_retry", r.ret, r.nreads, r.mux)
    /\ UNCHANGED <<wordVars, prog, sensor, monitorState>>

MuxClose ==
    /\ sensor' = SDP810_close(sensor)
    /\ last' = MuxCall("close", None, 0, <<>>)
    /\ UNCHANGED <<wordVars, prog, monitorState>>

MuxNext ==
    \/ MuxConnect
    \/ MuxReadPressure
    \/ MuxReadPressureWithCrc
    \/ MuxReadPressureWithRetry
    \/ MuxClose

SpecMux == MuxInit /\ [][MuxNext]_vars

\* C29: with a multiplexer channel configured, a call of connect,
\* read_pressure, read_pressure_with_crc or read_pressure_with_retry that
\* reads a frame has first written 0, then 1 << channel, to the multiplexer
\* and read the same mask back; when the mask read back differs or one of
\* the three transfers raises, the call reads no frame and returns no
\* pressure (connect returns False).
MuxSelectedBeforeFrameRead ==
    (last.op \in {"connect", "read_pressure", "read_pressure_with_crc",
                  "read_pressure_with_retry"} /\ sensor.mux_channel # None) =>
        LET mask == Shl(1, Val(sensor.mux_channel))
            t == last.mux
            selected == /\ Len(t) = 3
                        /\ t[1] = [kind |-> "mux_write", value |-> 0, ok |-> TRUE]
                        /\ t[2] = [kind |-> "mux_write", value |-> mask, ok |-> TRUE]
                        /\ t[3] = [kind |-> "mux_read", value |-> mask, ok |-> TRUE]
        IN  /\ last.nreads > 0 => selected
            /\ ~ selected =>
                 /\ last.nreads = 0
                 /\ last.ret \in {None, Some(FALSE)}
            /\ \A i \in 1 .. Len(t) - 1 : t[i].ok

\* C29 witness: on channel 2 a read_pressure_with_retry selected the channel
\* (0, then 4, read back 4) and returned the pressure of its second frame
MuxChannelTwoSelectedThenRead ==
    /\ last.op = "read_pressure_with_retry"
    /\ sensor.mux_channel = Some(2)
    /\ last.mux = <<[kind |-> "mux_write", value |-> 0, ok |-> TRUE],
                    [kind |-> "mux_write", value |-> 4, ok |-> TRUE],
                    [kind |-> "mux_read", value |-> 4, ok |-> TRUE]>>
    /\ last.nreads = 2
    /\ last.ret # None

(***************************************************************************)
(* SpecTca: the TCA9548A scripts.  prog = "tc9548a" is the polling loop of *)
(* tc9548a.py, workers holding its two loop counters; prog =               *)
(* "simpletca9548a" is a caller of SimpleTCA9548A.select_channel.          *)
(* smbus2 is not part of the repository: what write_byte does with a value *)
(* above 255 is left open between the outcomes it can have (the low byte   *)
(* goes on the wire, or an exception that is no OSError leaves the call).  *)
(***************************************************************************)
MuxCount == 8          \* for mux_index in range(8)
ChannelCount == 9      \* for channel in range(9)

\* last after a channel selection: mask is the value handed to write_byte,
\* written the byte that went on the wire (None: none did), ret what the
\* routine returned, raised whether an exception left it
TcaCall(op, mux_index, channel, mask, written, ret, raised, light) ==
    [op |-> op, mux_index |-> mux_index, channel |-> channel, mask |-> mask,
     written |-> written, ret |-> ret, raised |-> raised, light |-> light]

\* what bus.write_byte(addr, value) can do: OSError, the byte written, and
\* for a value that is no byte also another exception
WriteByteOutcomes(value) ==
    {[err |-> "OSError", written |-> None], [err |-> "none", written |-> Some(value % 256)]}
    \cup IF value \in Byte THEN {} ELSE {[err |-> "ValueError", written |-> None]}

\* tca9548a_select_channel(bus, mux_index, channel) -> [mask, written, raised]
tca9548a_select_channel(mux_index, channel, wio) ==
    [mask |-> Shl(1, channel), written |-> wio.written,
     raised |-> wio.err \notin {"none", "OSError"}]

\* BH1750.read_light of tc9548a.py, in sixths of a lux: raw / 1.2 = 5 raw / 6
tc9548a_read_light(io) ==
    IF io.err THEN None ELSE Some(5 * (io.data[2] + 256 * io.data[1]))

\* if 0 <= channel <= 7
SimpleTCA9548A_channel_valid(channel) == 0 <= channel /\ channel <= 7

\* SimpleTCA9548A.select_channel -> [mask, written, ret]; tca.configured: the
\* multiplexer was detected on the bus asked for
SimpleTCA9548A_select_channel(tca, channel, wio) ==
    IF ~ tca.configured THEN [mask |-> None, written |-> None, ret |-> FALSE]
    ELSE IF SimpleTCA9548A_channel_valid(channel)
    THEN [mask |-> Some(Shl(1, channel)), written |-> wio.written, ret |-> wio.err = "none"]
    ELSE [mask |-> None, written |-> None, ret |-> FALSE]

TcaInit ==
    /\ word = <<0, 0>>
    /\ res = Idle
    /\ prog \in {"tc9548a", "simpletca9548a"}
    /\ sensor \in IF prog = "tc9548a" THEN {[bus |-> TRUE, configured |-> TRUE]}
                  ELSE {[bus |-> TRUE, configured |-> c] : c \in BOOLEAN}
    /\ sensor_ready = FALSE
    /\ is_monitoring = FALSE
    /\ stop_pending = 0
    /\ workers = IF prog = "tc9548a" THEN <<[pc |-> "loop", mux_index |-> 0, channel |-> 0]>>
                 ELSE <<>>
    /\ data_queue = <<>>
    /\ history = <<>>
    /\ last = NoCall

\* one pass of the inner for loop of tc9548a.py: the channel selection,
\* BH1750(bus).init_sensor(), read_light, the print; then the next channel,
\* the next multiplexer, and from the last one the next round of while True
TcaPoll ==
    /\ prog = "tc9548a"
    /\ workers[1].pc = "loop"
    /\ LET mux_index == workers[1].mux_index
           channel == workers[1].channel
       IN  \E wio \in WriteByteOutcomes(Shl(1, channel)), io \in {IOError, Read(<<1, 44>>)} :
             LET sel == tca9548a_select_channel(mux_index, channel, wio)
                 next_channel == (channel + 1) % ChannelCount
                 next_mux == IF next_channel = 0 THEN (mux_index + 1) % MuxCount
                             ELSE mux_index
             IN  /\ workers' = IF sel.raised THEN [workers EXCEPT ![1].pc = "done"]
                               ELSE [workers EXCEPT ![1].mux_index = next_mux,
                                                    ![1].channel = next_channel]
                 /\ last' = TcaCall("tca9548a_select_channel", mux_index, channel, sel.mask,
                                    sel.written, None, sel.raised,
                                    IF sel.raised THEN None ELSE tc9548a_read_light(io))
    /\ UNCHANGED <<wordVars, prog, sensor, sensor_ready, is_monitoring, stop_pending,
                   data_queue, history>>

\* the channels a caller of select_channel can pass
SimpleTcaChannels == -1 .. 9

\* a call of SimpleTCA9548A.select_channel
SimpleTcaSelect ==
    /\ prog = "simpletca9548a"
    /\ \E channel \in SimpleTcaChannels :
         \E wio \in WriteByteOutcomes(IF channel >= 0 THEN Shl(1, channel) ELSE 0) :
           LET sel == SimpleTCA9548A_select_channel(sensor, channel, wio)
           IN  last' = TcaCall("select_channel", 0, channel, sel.mask, sel.written,
                               Some(sel.ret), FALSE, None)
    /\ UNCHANGED <<wordVars, prog, sensor, monitorState>>

TcaNext == TcaPoll \/ SimpleTcaSelect

SpecTca == TcaInit /\ [][TcaNext]_vars

\* C30: every tca9548a_select_channel call of the polling loop of tc9548a.py
\* is made with a channel of 0 .. 7 and hands write_byte the mask
\* 1 << channel, which fits in one byte; SimpleTCA9548A.select_channel writes
\* 1 << channel for a channel of 0 .. 7 and refuses any other channel
\* without writing.
SelectMaskFitsByte ==
    /\ last.op = "tca9548a_select_channel" =>
         /\ last.channel \in 0 .. 7
         /\ last.mask = Shl(1, last.channel)
         /\ last.mask \in Byte
         /\ ~ last.raised
    /\ last.op = "select_channel" =>
         /\ last.written # None =>
              /\ last.channel \in 0 .. 7
              /\ last.written = Some(Shl(1, last.channel))
         /\ last.channel \notin 0 .. 7 => last.written = None /\ last.ret = Some(FALSE)

====
